---- MODULE Spec2Model ----
(***************************************************************************)
(* The authenticated request layer of the CKS front end: lib/fetchWithCsrf *)
(* (Cookie Reader, Token Primer, Authenticated Fetch), lib/auth (Session   *)
(* Verifier) and the pages of the auth flows that use them.                *)
(*                                                                         *)
(* Strings the code transforms (method names, cookie values) are sequences *)
(* of one-character strings, so that toUpperCase and decodeURIComponent    *)
(* are computed rather than assumed.  A JavaScript value that may be       *)
(* null/undefined is a record [isNull, str].                               *)
(*                                                                         *)
(* One action is one run of the event loop: the code from one await to the *)
(* next.  The network, the server and the caller's AbortController are the *)
(* environment.                                                            *)
(***************************************************************************)
EXTENDS Integers, Sequences, FiniteSets, TLC

VARIABLES
    jar,      \* document.cookie: sequence of [name, value] (value still percent-encoded)
    pc,       \* per call: where fetchWithCsrf is suspended
    args,     \* per call: the init object as the caller passed it
    jar0,     \* per call: document.cookie at the moment of the call
    csrf,     \* per call: the branch taken at line 48, needsCsrf(init.method)
    init,     \* per call: the init object as the code has mutated it so far
    token,    \* per call: the local `token`
    sig,      \* per call: the caller's AbortSignal: "none", "armed" or "aborted"
    res,      \* per call: status of the first response (0 before it arrives)
    result,   \* per call: how the promise returned by fetchWithCsrf settled
    log,      \* per call: what the call did on the network, in order
    page,     \* the page or component that is mounted ("none": only the request layer)
    params,   \* the page's query parameters
    ui,       \* the page's React state, and what it did to the window
    pf        \* the fetch() calls a page made directly, not through fetchWithCsrf

coreVars == <<jar, pc, args, jar0, csrf, init, token, sig, res, result, log>>
flowVars == <<page, params, ui, pf>>
vars == <<jar, pc, args, jar0, csrf, init, token, sig, res, result, log,
          page, params, ui, pf>>

----------------------------------------------------------------------------
(* Values *)

Null == [isNull |-> TRUE, str |-> <<>>]
Str(s) == [isNull |-> FALSE, str |-> s]

\* JavaScript truthiness of a string-or-null: null and "" are falsy.
Truthy(v) == ~v.isNull /\ v.str # <<>>

\* `v ?? d`
Nullish(v, d) == IF v.isNull THEN d ELSE v.str

M_GET == <<"G", "E", "T">>
M_get == <<"g", "e", "t">>
M_HEAD == <<"H", "E", "A", "D">>
M_OPTIONS == <<"O", "P", "T", "I", "O", "N", "S">>
M_POST == <<"P", "O", "S", "T">>
M_post == <<"p", "o", "s", "t">>

\* The methods a caller may pass (undefined, and both letter cases).
Methods == {Null, Str(M_get), Str(M_HEAD), Str(M_OPTIONS),
            Str(M_POST), Str(M_post)}

\* Token values a server may put in the cookie, percent-encoded as on the wire:
\* "a", "b%3Dc" (the encoding of "b=c") and the empty value.
T_a == <<"a">>
T_b == <<"b", "%", "3", "D", "c">>
T_empty == <<>>
CookieValues == {T_a, T_b, T_empty}

XSRF == "XSRF-TOKEN"
HDR == "X-XSRF-TOKEN"

Statuses == {200, 403, 500}

Calls == {1, 2}

----------------------------------------------------------------------------
(* String.prototype.toUpperCase, on the letters the methods use *)

UpperChar(ch) ==
    CASE ch = "g" -> "G"
      [] ch = "e" -> "E"
      [] ch = "t" -> "T"
      [] ch = "p" -> "P"
      [] ch = "o" -> "O"
      [] ch = "s" -> "S"
      [] OTHER -> ch

toUpperCase(s) == [i \in 1..Len(s) |-> UpperChar(s[i])]

(* decodeURIComponent, on well-formed input (the server percent-encodes the
   value it sets; escapes used here: %3D and %2B) *)
HexChar(h, l) ==
    CASE h = "3" /\ l = "D" -> "="
      [] h = "2" /\ l = "B" -> "+"
      [] OTHER -> "?"

RECURSIVE decodeURIComponent(_)
decodeURIComponent(s) ==
    IF s = <<>> THEN <<>>
    ELSE IF s[1] = "%" /\ Len(s) >= 3
         THEN <<HexChar(s[2], s[3])>> \o decodeURIComponent(SubSeq(s, 4, Len(s)))
         ELSE <<s[1]>> \o decodeURIComponent(Tail(s))

----------------------------------------------------------------------------
(* The cookie jar *)

\* The regular expression finds the first cookie named exactly XSRF-TOKEN.
CookieMatch(j) == {i \in 1..Len(j) : j[i].name = XSRF}

FirstMatch(j) == CHOOSE i \in CookieMatch(j) : \A k \in CookieMatch(j) : i <= k

getCsrfCookie(j) ==
    IF CookieMatch(j) = {} THEN Null
    ELSE Str(decodeURIComponent(j[FirstMatch(j)].value))

\* Set-Cookie: XSRF-TOKEN=v  (the browser replaces the cookie or adds it)
SetCookie(j, v) ==
    IF CookieMatch(j) = {} THEN Append(j, [name |-> XSRF, value |-> v])
    ELSE [j EXCEPT ![FirstMatch(j)].value = v]

\* The cookie expires or is cleared.
RECURSIVE DropCookie(_)
DropCookie(j) ==
    IF j = <<>> THEN <<>>
    ELSE IF j[1].name = XSRF THEN DropCookie(Tail(j))
         ELSE <<j[1]>> \o DropCookie(Tail(j))

Session == [name |-> "JSESSIONID", value |-> <<"s">>]

\* The jar holds the session cookie, and the token cookie or not.
Jars == {<<Session>>}
        \cup {<<Session, [name |-> XSRF, value |-> v]>> : v \in CookieValues}

----------------------------------------------------------------------------
(* RequestInit and its headers *)

EmptyMap == [k \in {} |-> <<>>]

\* init.headers: undefined, a plain object, or a Headers instance.
NoHeaders == [kind |-> "undefined", map |-> EmptyMap]
PlainHeaders(m) == [kind |-> "object", map |-> m]
HeadersInstance(m) == [kind |-> "Headers", map |-> m]

V_json == <<"j">>
V_stale == <<"z">>

CallerHeaders ==
    { NoHeaders,
      PlainHeaders([k \in {"Content-Type", HDR} |->
                       IF k = HDR THEN V_stale ELSE V_json]),
      HeadersInstance([k \in {"Content-Type"} |-> V_json]) }

\* `{ ...(h || {}) }`: the own enumerable properties; a Headers instance has none.
Spread(h) == IF h.kind = "object" THEN h.map ELSE EmptyMap

\* `{ ...(h || {}), "X-XSRF-TOKEN": v }`
WithToken(h, v) ==
    PlainHeaders([k \in (DOMAIN Spread(h)) \cup {HDR} |->
                     IF k = HDR THEN v ELSE Spread(h)[k]])

\* `o ?? d` for an option that is a plain string
Opt(o, d) == IF o = "undefined" THEN d ELSE o

\* init.body: a POST carries a JSON payload, the other methods none.
BodyFor(m) == IF ~m.isNull /\ toUpperCase(m.str) = M_POST THEN "json" ELSE "undefined"

\* What a caller may pass as init (signal: whether init.signal is set).
CallerOptions ==
    { [credentials |-> "undefined", cache |-> "undefined"],
      [credentials |-> "omit", cache |-> "no-store"],
      [credentials |-> "same-origin", cache |-> "force-cache"] }

Inits ==
    { [method |-> m, credentials |-> o.credentials, cache |-> o.cache,
       headers |-> h, body |-> BodyFor(m), signal |-> sg] :
         m \in Methods, o \in CallerOptions, h \in CallerHeaders, sg \in BOOLEAN }

\* A request as handed to fetch(): the url and the init.
Request(url, i) == [url |-> url] @@ i

NoReq == Request("none", [method |-> Null, credentials |-> "undefined",
                          cache |-> "undefined", headers |-> NoHeaders,
                          body |-> "undefined", signal |-> FALSE])

\* lines 22-25: the init of the priming GET
PrimeRequest ==
    Request("prime", [method |-> Null, credentials |-> "include",
                      cache |-> "no-store", headers |-> NoHeaders,
                      body |-> "undefined", signal |-> FALSE])

\* Mutants of needsCsrf: the method compared as written; OPTIONS not exempt.
needsCsrf_CaseSensitive(method) ==
    LET m == Nullish(method, M_GET)
    IN  m # M_GET /\ m # M_HEAD /\ m # M_OPTIONS

needsCsrf_GetHeadOnly(method) ==
    LET m == toUpperCase(Nullish(method, M_GET))
    IN  m # M_GET /\ m # M_HEAD

\* lines 29-32
needsCsrf(method) ==
    LET m == toUpperCase(Nullish(method, M_GET))
    IN  m # M_GET /\ m # M_HEAD /\ m # M_OPTIONS

----------------------------------------------------------------------------
(* Outcomes and the network log *)

NoResult == [kind |-> "pending", status |-> 0, name |-> "", attempt |-> 0]
Response(s, n) == [kind |-> "response", status |-> s, name |-> "", attempt |-> n]
Failure(e, n) == [kind |-> "error", status |-> 0, name |-> e, attempt |-> n]

\* An event of a call: what happened, the request concerned, the status
\* received, and for a call of fetch(input, ...) document.cookie at that moment.
NoJar == <<>>
Ev(t, r, s, j) == [type |-> t, req |-> r, status |-> s, jar |-> j]

----------------------------------------------------------------------------
(* fetch(input, init) for the target.  A signal that is already aborted makes
   fetch reject with AbortError without any request; otherwise the request
   goes out and the caller is suspended on it.  n is the attempt (1: line 62,
   2: line 72), sg the state of the caller's signal, j the cookie jar at this
   moment, l the call's log so far. *)
StartFetch(c, r, n, sg, j, l) ==
    IF r.signal /\ sg = "aborted"
    THEN /\ pc' = [pc EXCEPT ![c] = "rejected"]
         /\ result' = [result EXCEPT ![c] = Failure("AbortError", n)]
         /\ log' = [log EXCEPT ![c] = Append(l, Ev("refused", Request("target", r), 0, j))]
    ELSE /\ pc' = [pc EXCEPT ![c] = IF n = 1 THEN "send1" ELSE "send2"]
         /\ result' = result
         /\ log' = [log EXCEPT ![c] = Append(l, Ev("send", Request("target", r), 0, j))]

\* lines 45-46
Forced(a) == [a EXCEPT !.credentials = "include",
                       !.cache = Opt(a.cache, "no-store")]

\* line 50: `if (!token)`
NeedsPriming(t) == ~Truthy(t)

\* lines 56-59: init.headers = { ...(init.headers || {}), "X-XSRF-TOKEN": token ?? "" }
Attach(i, t) == [i EXCEPT !.headers = WithToken(i.headers, Nullish(t, <<>>))]

\* line 54: `token = getCsrfCookie()` after the priming; t is the value read
\* at line 49, j the cookie jar now.
TokenAfterPriming_Stale(t, j) == t

TokenAfterPriming(t, j) == getCsrfCookie(j)

\* Mutants of ShouldRetry: the wrong status; the method not looked at.
ShouldRetry_Unauthorized(s, method) == s = 401 /\ needsCsrf(method)

ShouldRetry_AnyMethod(s, method) == s = 403

\* line 65
ShouldRetry(s, method) == s = 403 /\ needsCsrf(method)

\* Mutants of RetryInit: the first attempt's header kept; the signal dropped.
RetryInit_Cached(i, j) == i

RetryInit_NoSignal(i, j) ==
    [i EXCEPT !.headers = WithToken(i.headers, Nullish(getCsrfCookie(j), <<>>)),
              !.signal = FALSE]

\* Mutant of RetryInit: the retry's headers hold the token alone.
RetryInit_OnlyToken(i, j) ==
    [i EXCEPT !.headers = WithToken(NoHeaders, Nullish(getCsrfCookie(j), <<>>))]

\* lines 67-71: retryInit, with the cookie as it is in jar j
RetryInit(i, j) ==
    [i EXCEPT !.headers = WithToken(i.headers, Nullish(getCsrfCookie(j), <<>>))]

\* Mutant of YieldsAfterPriming: no yield on either path.
YieldsAfterPriming_Never(p) == FALSE

\* line 53: `await Promise.resolve()` follows the priming of lines 50-51 (the
\* call is at p = "prime1"); nothing stands between the priming of line 66
\* and the re-read of line 67.
YieldsAfterPriming(p) == p = "prime1"

\* Mutant of RetriesAgain: the retry's status is tested like the first one.
RetriesAgain_On403(s, method) == s = 403 /\ needsCsrf(method)

\* line 72: `return await fetch(input, retryInit)`; the status s of the
\* retry's response is not looked at.
RetriesAgain(s, method) == FALSE

\* Mutant of PrimeResolves: no .catch on the priming GET.
PrimeResolves_NoCatch(ok) == ok

\* line 25: `.catch(() => {})` makes primeCsrfCookie resolve whether the GET
\* got a response (ok) or not.
PrimeResolves(ok) == TRUE

(* lines 40-62, up to the first await: the caller passes init a, with a signal
   in state s when a.signal is set. *)
Begin(c, a, s) ==
    /\ pc[c] = "idle"
    /\ s \in (IF a.signal THEN {"armed", "aborted"} ELSE {"none"})
    /\ args' = [args EXCEPT ![c] = a]
    /\ jar0' = [jar0 EXCEPT ![c] = jar]
    /\ sig' = [sig EXCEPT ![c] = s]
    /\ csrf' = [csrf EXCEPT ![c] = needsCsrf(Forced(a).method)]
    /\ LET i == Forced(a)
           t == getCsrfCookie(jar)
       IN  IF needsCsrf(i.method)
           THEN IF NeedsPriming(t)
                THEN \* line 51: await primeCsrfCookie()
                     /\ init' = [init EXCEPT ![c] = i]
                     /\ token' = [token EXCEPT ![c] = t]
                     /\ pc' = [pc EXCEPT ![c] = "prime1"]
                     /\ log' = [log EXCEPT ![c] = Append(@, Ev("prime", PrimeRequest, 0, NoJar))]
                     /\ result' = result
                ELSE \* lines 56-62
                     /\ init' = [init EXCEPT ![c] = Attach(i, t)]
                     /\ token' = [token EXCEPT ![c] = t]
                     /\ StartFetch(c, Attach(i, t), 1, s, jar, log[c])
           ELSE /\ init' = [init EXCEPT ![c] = i]
                /\ token' = token
                /\ StartFetch(c, i, 1, s, jar, log[c])
    /\ UNCHANGED <<jar, res>>

(* The priming GET settles (lines 22-25).  ok: a response arrived, and with
   it possibly Set-Cookie: XSRF-TOKEN=v; otherwise the transport failed and
   .catch swallows the error, so primeCsrfCookie resolves either way.
   After line 51 the code awaits Promise.resolve() (line 53); after line 66
   it reads the cookie at once and sends the retry (lines 67-72). *)
PrimeSettles(c, ok, setc, v) ==
    /\ pc[c] \in {"prime1", "prime2"}
    /\ jar' = IF ok /\ setc THEN SetCookie(jar, v) ELSE jar
    /\ LET l == Append(log[c], Ev(IF ok THEN "primeDone" ELSE "primeFailed",
                                  PrimeRequest, 0, NoJar))
       IN  IF ~PrimeResolves(ok)
           THEN /\ pc' = [pc EXCEPT ![c] = "rejected"]
                /\ log' = [log EXCEPT ![c] = l]
                /\ result' = [result EXCEPT ![c] =
                                 Failure("TypeError", IF pc[c] = "prime1" THEN 1 ELSE 2)]
                /\ token' = token
           ELSE IF YieldsAfterPriming(pc[c])
           THEN /\ pc' = [pc EXCEPT ![c] = "yield"]
                /\ log' = [log EXCEPT ![c] = l]
                /\ UNCHANGED <<token, result>>
           ELSE /\ token' = [token EXCEPT ![c] = Str(Nullish(getCsrfCookie(jar'), <<>>))]
                /\ StartFetch(c, RetryInit(init[c], jar'), 2, sig[c], jar', l)
    /\ UNCHANGED <<args, jar0, csrf, init, sig, res>>

(* lines 54-62: after the yield, re-read the cookie, attach the header, send *)
Yield(c) ==
    /\ pc[c] = "yield"
    /\ LET t == TokenAfterPriming(token[c], jar)
           i2 == Attach(init[c], t)
       IN  /\ token' = [token EXCEPT ![c] = t]
           /\ init' = [init EXCEPT ![c] = i2]
           /\ StartFetch(c, i2, 1, sig[c], jar, log[c])
    /\ UNCHANGED <<jar, args, jar0, csrf, sig, res>>

(* lines 62-75: the first attempt gets a response with status s, which may
   carry Set-Cookie: XSRF-TOKEN=v *)
Respond1(c, s, setc, v) ==
    /\ pc[c] = "send1"
    /\ jar' = IF setc THEN SetCookie(jar, v) ELSE jar
    /\ res' = [res EXCEPT ![c] = s]
    /\ LET l == Append(log[c], Ev("recv", NoReq, s, NoJar))
       IN  IF ShouldRetry(s, init[c].method)
           THEN \* line 66: await primeCsrfCookie()
                /\ pc' = [pc EXCEPT ![c] = "prime2"]
                /\ log' = [log EXCEPT ![c] = Append(l, Ev("prime", PrimeRequest, 0, NoJar))]
                /\ result' = result
           ELSE \* line 75
                /\ pc' = [pc EXCEPT ![c] = "resolved"]
                /\ log' = [log EXCEPT ![c] = l]
                /\ result' = [result EXCEPT ![c] = Response(s, 1)]
    /\ UNCHANGED <<args, jar0, csrf, init, token, sig>>

(* line 72: the retry's response is returned as it is *)
Respond2(c, s, setc, v) ==
    /\ pc[c] = "send2"
    /\ jar' = IF setc THEN SetCookie(jar, v) ELSE jar
    /\ LET l == Append(log[c], Ev("recv", NoReq, s, NoJar))
       IN  IF RetriesAgain(s, init[c].method)
           THEN /\ pc' = [pc EXCEPT ![c] = "prime2"]
                /\ log' = [log EXCEPT ![c] = Append(l, Ev("prime", PrimeRequest, 0, NoJar))]
                /\ result' = result
           ELSE /\ pc' = [pc EXCEPT ![c] = "resolved"]
                /\ log' = [log EXCEPT ![c] = l]
                /\ result' = [result EXCEPT ![c] = Response(s, 2)]
    /\ UNCHANGED <<args, jar0, csrf, init, token, sig, res>>

(* lines 62 and 72: the transport of the target request fails; fetch rejects
   with TypeError and nothing catches it *)
TransportFails(c) ==
    /\ pc[c] \in {"send1", "send2"}
    /\ pc' = [pc EXCEPT ![c] = "rejected"]
    /\ log' = [log EXCEPT ![c] = Append(@, Ev("failed", NoReq, 0, NoJar))]
    /\ result' = [result EXCEPT ![c] =
                     Failure("TypeError", IF pc[c] = "send1" THEN 1 ELSE 2)]
    /\ UNCHANGED <<jar, args, jar0, csrf, init, token, sig, res>>

(* The caller triggers its AbortController while the call is in flight.  A
   target request in flight is cancelled and its fetch rejects with
   AbortError; the priming GET carries no signal and goes on. *)
Abort(c) ==
    /\ sig[c] = "armed"
    /\ pc[c] \in {"prime1", "yield", "send1", "prime2", "send2"}
    /\ sig' = [sig EXCEPT ![c] = "aborted"]
    /\ log' = [log EXCEPT ![c] = Append(@, Ev("abort", NoReq, 0, NoJar))]
    /\ IF pc[c] \in {"send1", "send2"}
       THEN /\ pc' = [pc EXCEPT ![c] = "rejected"]
            /\ result' = [result EXCEPT ![c] =
                             Failure("AbortError", IF pc[c] = "send1" THEN 1 ELSE 2)]
       ELSE UNCHANGED <<pc, result>>
    /\ UNCHANGED <<jar, args, jar0, csrf, init, token, res>>

(* The cookie changes out of band while a call is in flight: another tab's
   response rotates it, or it expires. *)
CookieRotates(v) ==
    /\ \E c \in Calls : pc[c] \in {"prime1", "yield", "send1", "prime2", "send2"}
    /\ jar' = SetCookie(jar, v)
    /\ jar' # jar
    /\ UNCHANGED <<pc, args, jar0, csrf, init, token, sig, res, result, log>>

CookieExpires ==
    /\ \E c \in Calls : pc[c] \in {"prime1", "yield", "send1", "prime2", "send2"}
    /\ jar' = DropCookie(jar)
    /\ jar' # jar
    /\ UNCHANGED <<pc, args, jar0, csrf, init, token, sig, res, result, log>>

----------------------------------------------------------------------------
(* One call of fetchWithCsrf, from any cookie jar *)

NoInit == [method |-> Null, credentials |-> "undefined", cache |-> "undefined",
           headers |-> NoHeaders, body |-> "undefined", signal |-> FALSE]

\* No call has been made yet.
CoreIdle ==
    /\ pc = [c \in Calls |-> "idle"]
    /\ args = [c \in Calls |-> NoInit]
    /\ jar0 = [c \in Calls |-> NoJar]
    /\ csrf = [c \in Calls |-> FALSE]
    /\ init = [c \in Calls |-> NoInit]
    /\ token = [c \in Calls |-> Null]
    /\ sig = [c \in Calls |-> "none"]
    /\ res = [c \in Calls |-> 0]
    /\ result = [c \in Calls |-> NoResult]
    /\ log = [c \in Calls |-> <<>>]

\* A text shown to the user: one of the page's own literals (id), or a string
\* taken from the response body (text).
NoMsg == [src |-> "none", id |-> "", text |-> <<>>]
Lit(id) == [src |-> "page", id |-> id, text |-> <<>>]
FromServer(t) == [src |-> "server", id |-> "", text |-> t]

\* A response body: JSON that parses to an object or to null, or "garbage"
\* (empty, HTML, ...) on which res.json() rejects.  A field that is absent
\* reads as undefined, which like "" is falsy: both are <<>>.
Body(k, a, e, m) == [kind |-> k, authenticated |-> a, error |-> e, message |-> m]
NoBody == Body("none", "absent", <<>>, <<>>)

\* What the handler got from its request: nothing yet, a response, or an error.
NotSeen == [kind |-> "none", status |-> 0, name |-> "", body |-> NoBody]
Seen(s, b) == [kind |-> "response", status |-> s, name |-> "", body |-> b]
SeenError(n) == [kind |-> "error", status |-> 0, name |-> n, body |-> NoBody]

\* What a call of fetchMe gave its caller.
NoOutcome == [kind |-> "none", value |-> NoBody, name |-> ""]
Returned(b) == [kind |-> "returned", value |-> b, name |-> ""]
Thrown(n) == [kind |-> "thrown", value |-> NoBody, name |-> n]

\* No page is mounted.
NoParams == [next |-> Null, token |-> Null]
NoUi == [submitting |-> FALSE, error |-> NoMsg, ok |-> FALSE, okText |-> NoMsg,
         effects |-> <<>>, user |-> "null", loading |-> FALSE,
         loggingOut |-> FALSE, outcome |-> NoOutcome, seen |-> NotSeen,
         ran |-> FALSE, mounted |-> TRUE, late |-> FALSE,
         calls |-> 0, requests |-> 0, prev |-> NoOutcome]
NoFetch == [state |-> "idle", req |-> NoReq, status |-> 0]
NoFetches == [get |-> NoFetch, post |-> NoFetch]

FlowIdle ==
    /\ page = "none"
    /\ params = NoParams
    /\ ui = NoUi
    /\ pf = NoFetches

Init ==
    /\ jar \in Jars
    /\ CoreIdle
    /\ FlowIdle

\* Spec runs a single call; Calls leaves room for a second, concurrent one.
Solo == {1}

Next ==
    \/ \E c \in Solo, a \in Inits, s \in {"none", "armed", "aborted"} :
          Begin(c, a, s) /\ UNCHANGED flowVars
    \/ \E c \in Solo, ok \in BOOLEAN, setc \in BOOLEAN, v \in CookieValues :
          PrimeSettles(c, ok, setc, v) /\ UNCHANGED flowVars
    \/ \E c \in Solo : Yield(c) /\ UNCHANGED flowVars
    \/ \E c \in Solo, s \in Statuses, setc \in BOOLEAN, v \in CookieValues :
          Respond1(c, s, setc, v) /\ UNCHANGED flowVars
    \/ \E c \in Solo, s \in Statuses, setc \in BOOLEAN, v \in CookieValues :
          Respond2(c, s, setc, v) /\ UNCHANGED flowVars
    \/ \E c \in Solo : TransportFails(c) /\ UNCHANGED flowVars
    \/ \E c \in Solo : Abort(c) /\ UNCHANGED flowVars
    \/ \E v \in CookieValues : CookieRotates(v) /\ UNCHANGED flowVars
    \/ CookieExpires /\ UNCHANGED flowVars

Spec == Init /\ [][Next]_vars

\* What the network and the event loop owe a call in flight: the priming GET
\* settles, the microtask of line 53 runs, the target request is answered or
\* its transport fails.
Settles(c) ==
    \/ \E ok \in BOOLEAN, setc \in BOOLEAN, v \in CookieValues : PrimeSettles(c, ok, setc, v)
    \/ Yield(c)
    \/ \E s \in Statuses, setc \in BOOLEAN, v \in CookieValues : Respond1(c, s, setc, v)
    \/ \E s \in Statuses, setc \in BOOLEAN, v \in CookieValues : Respond2(c, s, setc, v)
    \/ TransportFails(c)

\* Spec, with every underlying request settling.
FairSpec == Init /\ [][Next]_vars /\ \A c \in Solo : WF_vars(Settles(c) /\ UNCHANGED flowVars)

----------------------------------------------------------------------------
(* Reading a call's log *)

\* The network events of call c, without the caller's abort.
NetLog(c) == SelectSeq(log[c], LAMBDA e : e.type # "abort")

\* A call of fetch(input, ...): sent, or refused because the signal was aborted.
IsAttempt(e) == e.type \in {"send", "refused"}

AttemptsAt(l) == {i \in 1..Len(l) : IsAttempt(l[i])}
SendsAt(l) == {i \in 1..Len(l) : l[i].type = "send"}
PrimesAt(l) == {i \in 1..Len(l) : l[i].type = "prime"}
Settled(l, i) == l[i].type \in {"primeDone", "primeFailed"}

Started(c) == pc[c] # "idle"
Done(c) == pc[c] \in {"resolved", "rejected"}

\* The method as the claims classify it: upper-cased, GET when absent.
MethodName(m) == toUpperCase(IF m.isNull THEN M_GET ELSE m.str)
ExemptMethods == {M_GET, M_HEAD, M_OPTIONS}
Mutating(c) == MethodName(args[c].method) \notin ExemptMethods

\* The X-XSRF-TOKEN header of a request, and the value the cookie jar j holds
\* for it ("" when the cookie is absent).
HasToken(r) == r.headers.kind = "object" /\ HDR \in DOMAIN r.headers.map
TokenOf(r) == r.headers.map[HDR]
CookieAbsent(j) == \A i \in 1..Len(j) : j[i].name # XSRF
CookieOrEmpty(j) ==
    IF CookieAbsent(j) THEN <<>>
    ELSE decodeURIComponent(j[CHOOSE i \in 1..Len(j) : j[i].name = XSRF].value)

----------------------------------------------------------------------------
(* C1: a mutating call made while no XSRF-TOKEN cookie exists issues exactly
   one priming request, which completes before the first attempt is handed to
   fetch, and the first attempt carries X-XSRF-TOKEN equal to the cookie value
   found after priming ("" if there is none). *)
C1_PrimeOnceThenAttach ==
    \A c \in Calls :
        (Started(c) /\ Mutating(c) /\ CookieAbsent(jar0[c])) =>
            LET n == NetLog(c) IN
            /\ Len(n) >= 1
            /\ n[1].type = "prime"
            /\ \A i \in AttemptsAt(n) :
                  (\A k \in AttemptsAt(n) : i <= k) =>
                      /\ i = 3
                      /\ Settled(n, 2)
                      /\ HasToken(n[i].req)
                      /\ TokenOf(n[i].req) = CookieOrEmpty(n[i].jar)

\* The first attempt went out after one priming that set "b%3Dc", carrying "b=c".
C1_Witness ==
    \E c \in Calls :
        /\ Mutating(c) /\ CookieAbsent(jar0[c])
        /\ Len(log[c]) >= 3
        /\ log[c][1].type = "prime" /\ log[c][2].type = "primeDone"
        /\ log[c][3].type = "send"
        /\ TokenOf(log[c][3].req) = <<"b", "=", "c">>

(* C2: a mutating call hands the target to fetch at most twice; the second
   time exactly when the first response was 403; and what the retry yields is
   what the caller gets, a second 403 included. *)
C2_AtMostOneRetry ==
    \A c \in Calls :
        (Started(c) /\ Mutating(c)) =>
            LET n == NetLog(c) IN
            /\ Cardinality(AttemptsAt(n)) <= 2
            /\ Cardinality(AttemptsAt(n)) = 2 => res[c] = 403
            /\ (Done(c) /\ res[c] = 403) =>
                   /\ Cardinality(AttemptsAt(n)) = 2
                   /\ result[c].attempt = 2
            /\ (pc[c] = "resolved" /\ res[c] = 403) =>
                   /\ n[Len(n)].type = "recv"
                   /\ result[c] = Response(n[Len(n)].status, 2)

\* The retry was answered 403 as well, and that response is the result.
C2_Witness ==
    \E c \in Calls :
        /\ Mutating(c) /\ pc[c] = "resolved"
        /\ res[c] = 403 /\ result[c] = Response(403, 2)
        /\ Cardinality(SendsAt(log[c])) = 2

(* C3: the retry is preceded by a priming request that was issued after the
   403 and has completed, and its X-XSRF-TOKEN equals the cookie value present
   once that priming completed ("" if absent), whatever the first attempt
   carried. *)
C3_RetryRereadsCookie ==
    \A c \in Calls :
        LET n == NetLog(c) IN
        \A i \in AttemptsAt(n) :
            (\E k \in AttemptsAt(n) : k < i) =>
                /\ i >= 5
                /\ n[i - 3].type = "recv" /\ n[i - 3].status = 403
                /\ n[i - 2].type = "prime"
                /\ Settled(n, i - 1)
                /\ HasToken(n[i].req)
                /\ TokenOf(n[i].req) = CookieOrEmpty(n[i].jar)

\* The cookie was rotated from "a" to "b%3Dc": the retry carries "b=c".
C3_Witness ==
    \E c \in Calls :
        LET n == NetLog(c) IN
        /\ Cardinality(SendsAt(n)) = 2
        /\ \E i, k \in SendsAt(n) :
              /\ i < k
              /\ TokenOf(n[i].req) = <<"a">>
              /\ TokenOf(n[k].req) = <<"b", "=", "c">>

(* C4: a call with a non-mutating method issues no priming request and hands
   fetch the caller's headers untouched, whether or not the cookie exists. *)
C4_ReadOnlyUntouched ==
    \A c \in Calls :
        (Started(c) /\ ~Mutating(c)) =>
            /\ PrimesAt(log[c]) = {}
            /\ \A i \in AttemptsAt(log[c]) : log[c][i].req.headers = args[c].headers

\* A lower-case "get" answered while no cookie existed: sent without priming.
C4_Witness ==
    \E c \in Calls :
        /\ args[c].method = Str(M_get)
        /\ CookieAbsent(jar0[c])
        /\ args[c].headers = NoHeaders
        /\ pc[c] = "resolved"
        /\ Cardinality(SendsAt(log[c])) = 1

(* C5: every request handed to fetch for the target, first attempt and retry,
   has credentials "include" and cache "no-store", whatever the caller passed. *)
C5_CredentialsAndNoStore ==
    \A c \in Calls :
        \A i \in AttemptsAt(log[c]) :
            /\ log[c][i].req.credentials = "include"
            /\ log[c][i].req.cache = "no-store"

(* C6 as stated: a request is treated as mutating exactly when its method,
   upper-cased and GET when absent, is neither GET nor HEAD. *)
C6_MutatingUnlessGetOrHead ==
    \A c \in Calls :
        Started(c) => (csrf[c] <=> MethodName(args[c].method) \notin {M_GET, M_HEAD})

(* C6 as amended: a request is treated as mutating exactly when its method,
   upper-cased and GET when absent, is none of GET, HEAD and OPTIONS. *)
C6_MutatingUnlessExempt ==
    \A c \in Calls :
        Started(c) => (csrf[c] <=> MethodName(args[c].method) \notin ExemptMethods)

\* An OPTIONS request was classified as not mutating and went out without
\* priming.
C6_Witness ==
    \E c \in Calls :
        /\ args[c].method = Str(M_OPTIONS)
        /\ ~csrf[c]
        /\ Cardinality(SendsAt(log[c])) = 1
        /\ PrimesAt(log[c]) = {}

(* C7: once the first attempt has been answered or has failed, a non-mutating
   call, a mutating call answered other than 403, and a call whose first
   attempt failed in transport are settled with that response or error, and
   the target was contacted exactly once. *)
C7_NoOtherRetry ==
    \A c \in Calls :
        LET n == NetLog(c)
            first == CHOOSE i \in AttemptsAt(n) : \A k \in AttemptsAt(n) : i <= k
        IN  (AttemptsAt(n) # {} /\ Len(n) > first) =>
                /\ (n[first + 1].type = "recv"
                      /\ (~Mutating(c) \/ n[first + 1].status # 403)) =>
                       /\ pc[c] = "resolved"
                       /\ result[c] = Response(n[first + 1].status, 1)
                       /\ Len(n) = first + 1
                       /\ Cardinality(SendsAt(n)) = 1
                /\ n[first + 1].type = "failed" =>
                       /\ pc[c] = "rejected"
                       /\ result[c] = Failure("TypeError", 1)
                       /\ Len(n) = first + 1
                       /\ Cardinality(SendsAt(n)) = 1

\* A HEAD request answered 403 is returned as it is.
C7_Witness ==
    \E c \in Calls :
        /\ args[c].method = Str(M_HEAD)
        /\ pc[c] = "resolved"
        /\ result[c] = Response(403, 1)

(* C8: a transport failure of the priming request never settles the call:
   after it the call is waiting for its tick, or it has gone on to hand the
   target to fetch with the token the cookie jar held (possibly ""), on the
   first acquisition and on the retry alike. *)
C8_PrimeFailureSwallowed ==
    \A c \in Calls :
        LET n == NetLog(c) IN
        \A i \in 1..Len(n) :
            n[i].type = "primeFailed" =>
                IF Len(n) = i
                THEN pc[c] = "yield" /\ result[c] = NoResult
                ELSE /\ IsAttempt(n[i + 1])
                     /\ HasToken(n[i + 1].req)
                     /\ TokenOf(n[i + 1].req) = CookieOrEmpty(n[i + 1].jar)

\* Both primings failed in transport and the call still resolved with the
\* retry's response.
C8_Witness ==
    \E c \in Calls :
        LET n == NetLog(c) IN
        /\ pc[c] = "resolved"
        /\ Cardinality({i \in 1..Len(n) : n[i].type = "primeFailed"}) = 2
        /\ Cardinality(SendsAt(n)) = 2

(* C9: the call resolves with the response whatever its status, and rejects
   only when the target's transport failed (TypeError) or the signal was
   aborted (AbortError); a transport failure of the target always rejects. *)
C9_ResolveOrTransportError ==
    \A c \in Calls :
        LET l == log[c] IN
        /\ pc[c] = "resolved" =>
               /\ l[Len(l)].type = "recv"
               /\ result[c].kind = "response"
               /\ result[c].status = l[Len(l)].status
        /\ pc[c] = "rejected" =>
               /\ result[c].kind = "error"
               /\ \/ l[Len(l)].type = "failed" /\ result[c].name = "TypeError"
                  \/ /\ l[Len(l)].type \in {"abort", "refused"}
                     /\ sig[c] = "aborted"
                     /\ result[c].name = "AbortError"
        /\ (l # <<>> /\ l[Len(l)].type = "recv") =>
               pc[c] = "resolved"
        /\ (l # <<>> /\ l[Len(l)].type = "failed") =>
               pc[c] = "rejected"

\* The retry failed in transport: the call rejects with that error.
C9_Witness ==
    \E c \in Calls :
        /\ pc[c] = "rejected"
        /\ result[c] = Failure("TypeError", 2)
        /\ res[c] = 403

(* C10: once the caller's signal is triggered while the call is in flight, no
   request (priming or target) is started any more, the call is never waiting
   on a target request, and it settles only by rejecting with AbortError. *)
C10_AbortStopsTheCall ==
    \A c \in Calls :
        LET l == log[c] IN
        \A k \in 1..Len(l) :
            l[k].type = "abort" =>
                /\ \A i \in (k + 1)..Len(l) : l[i].type \notin {"prime", "send"}
                /\ pc[c] \in {"prime1", "yield", "prime2", "rejected"}
                /\ pc[c] = "rejected" => result[c].name = "AbortError"

\* The signal was triggered during the retry's priming: the retry was not
\* sent and the call rejected with AbortError.
C10_Witness ==
    \E c \in Calls :
        LET l == log[c] IN
        /\ pc[c] = "rejected"
        /\ result[c] = Failure("AbortError", 2)
        /\ Len(l) >= 3
        /\ l[Len(l)].type = "refused"
        /\ l[Len(l) - 2].type = "abort"
        /\ l[Len(l) - 3].type = "prime"

----------------------------------------------------------------------------
(* Two calls of fetchWithCsrf in flight together, from a jar without the
   token cookie.  Their steps interleave at every await; each response may
   set the cookie, so each call sees the other's effect on the jar. *)

\* Both calls are POSTs without a signal; the server answers 200 or 403 and
\* issues the tokens "a" and "b%3Dc".
ConcInits ==
    { [method |-> Str(M_POST), credentials |-> "undefined", cache |-> "undefined",
       headers |-> NoHeaders, body |-> "json", signal |-> FALSE] }
ConcStatuses == {200, 403}
ConcValues == {T_a, T_b}

ConcInit ==
    /\ jar = <<Session>>
    /\ CoreIdle
    /\ FlowIdle

\* What the network and the event loop do for call c once it is made.
CallStep(c) ==
    \/ \E ok \in BOOLEAN, setc \in BOOLEAN, v \in ConcValues : PrimeSettles(c, ok, setc, v)
    \/ Yield(c)
    \/ \E s \in ConcStatuses, setc \in BOOLEAN, v \in ConcValues : Respond1(c, s, setc, v)
    \/ \E s \in ConcStatuses, setc \in BOOLEAN, v \in ConcValues : Respond2(c, s, setc, v)
    \/ TransportFails(c)

ConcNext ==
    \/ \E c \in Calls, a \in ConcInits : Begin(c, a, "none") /\ UNCHANGED flowVars
    \/ \E c \in Calls, ok \in BOOLEAN, setc \in BOOLEAN, v \in ConcValues :
          PrimeSettles(c, ok, setc, v) /\ UNCHANGED flowVars
    \/ \E c \in Calls : Yield(c) /\ UNCHANGED flowVars
    \/ \E c \in Calls, s \in ConcStatuses, setc \in BOOLEAN, v \in ConcValues :
          Respond1(c, s, setc, v) /\ UNCHANGED flowVars
    \/ \E c \in Calls, s \in ConcStatuses, setc \in BOOLEAN, v \in ConcValues :
          Respond2(c, s, setc, v) /\ UNCHANGED flowVars
    \/ \E c \in Calls : TransportFails(c) /\ UNCHANGED flowVars

\* Every request settles and every continuation is run.
ConcSpec ==
    /\ ConcInit
    /\ [][ConcNext]_vars
    /\ \A c \in Calls : WF_vars(CallStep(c) /\ UNCHANGED flowVars)

\* In every state: a call in flight can take its next step whatever the other
\* call is doing, and every target request carries the token the jar held when
\* the call handed it to fetch ("" when the cookie was absent).
C11_EachReadsCurrent ==
    \A c \in Calls :
        /\ (Started(c) /\ ~Done(c)) => ENABLED (CallStep(c) /\ UNCHANGED flowVars)
        /\ \A i \in AttemptsAt(log[c]) :
              /\ HasToken(log[c][i].req)
              /\ TokenOf(log[c][i].req) = CookieOrEmpty(log[c][i].jar)

(* C11: two mutating calls interleaved at every await, from an empty jar:
   neither blocks the other, both complete, and each one's X-XSRF-TOKEN is the
   cookie value current when that call read the cookie. *)
C11_ConcurrentCalls ==
    /\ []C11_EachReadsCurrent
    /\ \A c \in Calls : Started(c) ~> Done(c)

\* Both calls primed while the other was in flight, and they sent different
\* tokens: "a" and "b=c".
C11_Witness ==
    /\ pc[1] = "send1" /\ pc[2] = "send1"
    /\ log[1][1].type = "prime" /\ log[2][1].type = "prime"
    /\ TokenOf(log[1][3].req) = <<"a">>
    /\ TokenOf(log[2][3].req) = <<"b", "=", "c">>

----------------------------------------------------------------------------
(* The pages of the auth flows.  A page is mounted alone; its handler uses
   call 1 of fetchWithCsrf, or fetch() directly.  A handler is run again only
   after its previous run has finished, and not once the page has navigated
   away.  The server chooses the status and the body of each response. *)

Pages == {"me", "navbar", "login", "loginLegacy", "register", "forgot",
          "reset", "resend", "callback", "dashboard"}

FlowStatuses == {200, 204, 401, 403, 404, 429, 500}

\* Response.ok
Ok(s) == s >= 200 /\ s <= 299

\* Texts a server may put in the `error` or `message` field of a body.
E_notVerified == <<"A", "c", "c", "o", "u", "n", "t", " ", "i", "s", " ",
                   "n", "o", "t", " ", "v", "e", "r", "i", "f", "i", "e", "d">>
E_noUser == <<"N", "o", " ", "u", "s", "e", "r">>
M_wait == <<"W", "a", "i", "t">>
M_already == <<"A", "l", "r", "e", "a", "d", "y", " ", "v", "e", "r", "i", "f",
               "i", "e", "d">>
E_already == <<"i", "s", " ", "a", "l", "r", "e", "a", "d", "y", " ", " ",
               "V", "E", "R", "I", "F", "I", "E", "D", ".">>
M_almost == <<"a", "l", "r", "e", "a", "d", "y", "v", "e", "r", "i", "f",
              "i", "e", "d">>

NullData == Body("null", "absent", <<>>, <<>>)
EmptyObject == Body("object", "absent", <<>>, <<>>)
Garbage == Body("garbage", "absent", <<>>, <<>>)
Anonymous == Body("object", "false", <<>>, <<>>)

\* Bodies of the identity endpoint: a session, no session, JSON of another
\* shape, and a body that is not JSON.
MeBodies == {Body("object", "true", <<>>, <<>>), Anonymous, EmptyObject,
             NullData, Garbage}

\* Bodies of the mutating endpoints.
FlowBodies == {Garbage, NullData, EmptyObject,
               Body("object", "absent", E_notVerified, <<>>),
               Body("object", "absent", E_noUser, <<>>),
               Body("object", "absent", E_already, <<>>),
               Body("object", "absent", <<>>, M_wait),
               Body("object", "absent", <<>>, M_already),
               Body("object", "absent", E_noUser, M_almost)}

\* `await res.json().catch(() => d)`: the parsed body, or d when it does not parse
JsonOr(b, d) == IF b.kind = "garbage" THEN d ELSE b

\* `data?.f` for a string field f: undefined unless data is an object
Get(d, f) == IF d.kind = "object" THEN d[f] ELSE <<>>

\* `t || "<literal id>"` as the text to show
OrLit(t, id) == IF t # <<>> THEN FromServer(t) ELSE Lit(id)

\* String.prototype.trim
IsSpace(ch) == ch \in {" ", "\t", "\n"}

RECURSIVE TrimStart(_)
TrimStart(s) ==
    IF s # <<>> /\ IsSpace(s[1]) THEN TrimStart(Tail(s)) ELSE s

RECURSIVE TrimEnd(_)
TrimEnd(s) ==
    IF s # <<>> /\ IsSpace(s[Len(s)]) THEN TrimEnd(SubSeq(s, 1, Len(s) - 1)) ELSE s

Trim(s) == TrimEnd(TrimStart(s))

\* /already\s+verified/i.test(s)
Fold(ch) ==
    CASE ch = "A" -> "a"
      [] ch = "L" -> "l"
      [] ch = "R" -> "r"
      [] ch = "E" -> "e"
      [] ch = "D" -> "d"
      [] ch = "Y" -> "y"
      [] ch = "V" -> "v"
      [] ch = "I" -> "i"
      [] ch = "F" -> "f"
      [] OTHER -> ch

W_already == <<"a", "l", "r", "e", "a", "d", "y">>
W_verified == <<"v", "e", "r", "i", "f", "i", "e", "d">>

WordAt(s, i, w) ==
    /\ i + Len(w) - 1 <= Len(s)
    /\ \A k \in 1..Len(w) : Fold(s[i + k - 1]) = w[k]

AlreadyVerified(s) ==
    \E i \in 1..Len(s), n \in 1..Len(s) :
        /\ WordAt(s, i, W_already)
        /\ \A k \in 1..n : i + 6 + k <= Len(s) /\ IsSpace(s[i + 6 + k])
        /\ WordAt(s, i + 7 + n, W_verified)

\* window effects, in the order the page caused them
Effect(op, arg) == [op |-> op, arg |-> arg]
AuthChanged == Effect("dispatchEvent", <<"cks:auth-changed">>)
Assign(to) == Effect("assign", to)
Push(to) == Effect("push", to)
Home == <<"/">>
N_admin == <<"/", "a", "d", "m", "i", "n">>

Navigated(u) == \E i \in 1..Len(u.effects) : u.effects[i].op \in {"assign", "push"}

\* A request a page hands to fetch() itself.
PlainRequest(url, m, cache, h) ==
    Request(url, [method |-> m, credentials |-> "include", cache |-> cache,
                  headers |-> h, 
                  body |-> IF h.kind = "object" /\ "Content-Type" \in DOMAIN h.map
                           THEN "json" ELSE "undefined",
                  signal |-> FALSE])

Sent(r) == [state |-> "sent", req |-> r, status |-> 0]
Answered(f, s) == [f EXCEPT !.state = "done", !.status = s]
Failed(f) == [f EXCEPT !.state = "failed"]

ContentType == PlainHeaders([k \in {"Content-Type"} |-> V_json])
Accept == PlainHeaders([k \in {"Accept"} |-> V_json])

\* The init the pages pass to fetchWithCsrf: a POST with a JSON body.
PostJson(sg) == [method |-> Str(M_POST), credentials |-> "undefined",
                 cache |-> "undefined", headers |-> ContentType, body |-> "json", signal |-> sg]

\* Call c of fetchWithCsrf has settled and its caller has consumed the result.
Release(c) ==
    /\ pc' = [pc EXCEPT ![c] = "idle"]
    /\ args' = [args EXCEPT ![c] = NoInit]
    /\ jar0' = [jar0 EXCEPT ![c] = NoJar]
    /\ csrf' = [csrf EXCEPT ![c] = FALSE]
    /\ init' = [init EXCEPT ![c] = NoInit]
    /\ token' = [token EXCEPT ![c] = Null]
    /\ sig' = [sig EXCEPT ![c] = "none"]
    /\ res' = [res EXCEPT ![c] = 0]
    /\ result' = [result EXCEPT ![c] = NoResult]
    /\ log' = [log EXCEPT ![c] = <<>>]
    /\ jar' = jar

\* What `await fetchWithCsrf(...)` gives the handler; b is the response's body.
Awaited(c, b) ==
    IF result[c].kind = "response" THEN Seen(result[c].status, b)
    ELSE SeenError(result[c].name)

----------------------------------------------------------------------------
(* lib/auth.ts: fetchMe, the Session Verifier *)

FetchMeRequest == PlainRequest("/api/auth/me", Null, "no-store", NoHeaders)

\* Mutant of fetchMe: a response that is not ok makes it throw.
fetchMe_ThrowsUnlessOk(s, b) ==
    IF ~Ok(s) THEN Thrown("Error")
    ELSE IF b.kind = "garbage" THEN Thrown("SyntaxError")
    ELSE Returned(b)

\* lines 7-8, once the response (status s, body b) is there:
\* `if (!res.ok) return { authenticated: false }; return res.json();`
fetchMe(s, b) ==
    IF ~Ok(s) THEN Returned(Anonymous)
    ELSE IF b.kind = "garbage" THEN Thrown("SyntaxError")
    ELSE Returned(b)

\* How many calls of fetchMe a caller makes.
MaxCalls == 2

\* Mutant of IssuesRequest: a value returned earlier is served again.
IssuesRequest_Memo(prev) == prev.kind # "returned"

\* lines 2-6: fetchMe keeps nothing between calls; whatever the previous
\* call gave (prev), it calls fetch.
IssuesRequest(prev) == TRUE

\* lines 2-6: a caller calls fetchMe()
FetchMeCalled ==
    /\ page = "me"
    /\ pf.get.state # "sent"
    /\ ui.calls < MaxCalls
    /\ IF IssuesRequest(ui.outcome)
       THEN /\ pf' = [pf EXCEPT !.get = Sent(FetchMeRequest)]
            /\ ui' = [ui EXCEPT !.outcome = NoOutcome, !.seen = NotSeen, !.ran = TRUE,
                                !.calls = @ + 1, !.requests = @ + 1, !.prev = ui.outcome]
       ELSE /\ pf' = pf
            /\ ui' = [ui EXCEPT !.calls = @ + 1, !.prev = ui.outcome]
    /\ UNCHANGED <<page, params>>
    /\ UNCHANGED coreVars

FetchMeResponds(s, b) ==
    /\ page = "me"
    /\ pf.get.state = "sent"
    /\ pf' = [pf EXCEPT !.get = Answered(@, s)]
    /\ ui' = [ui EXCEPT !.outcome = fetchMe(s, b), !.seen = Seen(s, b)]
    /\ UNCHANGED <<page, params>>
    /\ UNCHANGED coreVars

\* line 3: fetch rejects, and fetchMe has no try/catch
FetchMeFails ==
    /\ page = "me"
    /\ pf.get.state = "sent"
    /\ pf' = [pf EXCEPT !.get = Failed(@)]
    /\ ui' = [ui EXCEPT !.outcome = Thrown("TypeError"), !.seen = SeenError("TypeError")]
    /\ UNCHANGED <<page, params>>
    /\ UNCHANGED coreVars

----------------------------------------------------------------------------
(* components/Navbar: refreshAuth and handleLogout *)

RefreshRequest == PlainRequest("/api/auth/me", Null, "no-store", Accept)
LogoutRequest == PlainRequest("/api/auth/logout", Str(M_POST), "undefined", Accept)

\* lines 56-77: the user refreshAuth sets for a response
RefreshedUser(s, b) ==
    IF Ok(s) /\ b.kind = "object" /\ b.authenticated = "true" THEN "user" ELSE "null"

\* lines 49-55 (on mount, and when the window regains focus)
RefreshAuth ==
    /\ page = "navbar"
    /\ pf.get.state # "sent"
    /\ ~Navigated(ui)
    /\ pf' = [pf EXCEPT !.get = Sent(RefreshRequest)]
    /\ UNCHANGED <<page, params, ui>>
    /\ UNCHANGED coreVars

\* lines 56-82; a body that does not parse ends in the catch
RefreshAuthResponds(s, b) ==
    /\ page = "navbar"
    /\ pf.get.state = "sent"
    /\ pf' = [pf EXCEPT !.get = Answered(@, s)]
    /\ ui' = [ui EXCEPT !.user = RefreshedUser(s, b), !.loading = FALSE]
    /\ UNCHANGED <<page, params>>
    /\ UNCHANGED coreVars

\* lines 78-82
RefreshAuthFails ==
    /\ page = "navbar"
    /\ pf.get.state = "sent"
    /\ pf' = [pf EXCEPT !.get = Failed(@)]
    /\ ui' = [ui EXCEPT !.user = "null", !.loading = FALSE]
    /\ UNCHANGED <<page, params>>
    /\ UNCHANGED coreVars

\* lines 85-93
HandleLogout ==
    /\ page = "navbar"
    /\ ~ui.loggingOut
    /\ pf' = [pf EXCEPT !.post = Sent(LogoutRequest)]
    /\ ui' = [ui EXCEPT !.loggingOut = TRUE, !.ran = TRUE]
    /\ UNCHANGED <<page, params>>
    /\ UNCHANGED coreVars

\* Mutant of LogoutCleansUp: the clean-up done only after a response that is ok.
LogoutCleansUp_WhenOk(k) == k.kind = "response" /\ Ok(k.status)

\* lines 94-99: the catch ignores the error and the finally block runs
\* however the request settled (k).
LogoutCleansUp(k) == TRUE

AfterLogout(u, k) ==
    IF LogoutCleansUp(k)
    THEN [u EXCEPT !.seen = k, !.user = "null", !.effects = Append(@, Assign(Home))]
    ELSE [u EXCEPT !.seen = k]

LogoutResponds(s) ==
    /\ page = "navbar"
    /\ pf.post.state = "sent"
    /\ pf' = [pf EXCEPT !.post = Answered(@, s)]
    /\ ui' = AfterLogout(ui, Seen(s, NoBody))
    /\ UNCHANGED <<page, params>>
    /\ UNCHANGED coreVars

LogoutFails ==
    /\ page = "navbar"
    /\ pf.post.state = "sent"
    /\ pf' = [pf EXCEPT !.post = Failed(@)]
    /\ ui' = AfterLogout(ui, SeenError("TypeError"))
    /\ UNCHANGED <<page, params>>
    /\ UNCHANGED coreVars

LogoutSettles == (\E s \in FlowStatuses : LogoutResponds(s)) \/ LogoutFails

----------------------------------------------------------------------------
(* app/auth/login: the page that uses fetchWithCsrf, and the one that calls
   fetch() itself.  Their handlers are the same after the request. *)

WentWrong == Lit("Something went wrong. Please try again.")
Blocked == Lit("Request was blocked. Please refresh and try again.")

\* Mutant of returnTo: the `next` parameter ignored.
returnTo_AlwaysHome(next) == Home

\* `searchParams.get("next") ?? "/"`
returnTo(next) == Nullish(next, Home)

\* the text chosen from the parsed error body d
LoginError(d) ==
    IF Get(d, "error") = E_notVerified
    THEN Lit("Please verify your email before logging in.")
    ELSE OrLit(Get(d, "error"), "Invalid email or password.")

\* from `if (res.status === 204 || res.ok)` to the end of the finally block
AfterLogin(u, k, next) ==
    IF k.kind = "response" /\ (k.status = 204 \/ Ok(k.status))
    THEN [u EXCEPT !.seen = k, !.submitting = FALSE,
                   !.effects = @ \o <<AuthChanged, Assign(returnTo(next))>>]
    ELSE IF k.kind = "response"
    THEN [u EXCEPT !.seen = k, !.submitting = FALSE,
                   !.error = LoginError(JsonOr(k.body, NullData))]
    ELSE [u EXCEPT !.seen = k, !.submitting = FALSE, !.error = WentWrong]

\* the handler's first lines: setSubmitting(true); setError(null)
Submitting(u) ==
    [u EXCEPT !.submitting = TRUE, !.error = NoMsg, !.seen = NotSeen, !.ran = TRUE]

LoginSubmit ==
    /\ page = "login"
    /\ ui.mounted
    /\ ~ui.submitting
    /\ ~Navigated(ui)
    /\ Begin(1, PostJson(FALSE), "none")
    /\ ui' = Submitting(ui)
    /\ UNCHANGED <<page, params, pf>>

LoginDone(b) ==
    /\ page = "login"
    /\ Done(1)
    /\ ui' = [AfterLogin(ui, Awaited(1, b), params.next) EXCEPT !.late = ~ui.mounted]
    /\ Release(1)
    /\ UNCHANGED <<page, params, pf>>

LegacyLoginRequest ==
    PlainRequest("/api/auth/login", Str(M_POST), "undefined", ContentType)

LegacyLoginSubmit ==
    /\ page = "loginLegacy"
    /\ ~ui.submitting
    /\ ~Navigated(ui)
    /\ pf' = [pf EXCEPT !.post = Sent(LegacyLoginRequest)]
    /\ ui' = Submitting(ui)
    /\ UNCHANGED <<page, params>>
    /\ UNCHANGED coreVars

LegacyLoginResponds(s, b) ==
    /\ page = "loginLegacy"
    /\ pf.post.state = "sent"
    /\ pf' = [pf EXCEPT !.post = Answered(@, s)]
    /\ ui' = AfterLogin(ui, Seen(s, b), params.next)
    /\ UNCHANGED <<page, params>>
    /\ UNCHANGED coreVars

LegacyLoginFails ==
    /\ page = "loginLegacy"
    /\ pf.post.state = "sent"
    /\ pf' = [pf EXCEPT !.post = Failed(@)]
    /\ ui' = AfterLogin(ui, SeenError("TypeError"), params.next)
    /\ UNCHANGED <<page, params>>
    /\ UNCHANGED coreVars

----------------------------------------------------------------------------
(* app/auth/reset-password *)

MissingToken ==
    Lit("Missing or invalid reset token. Please use the link from your email.")

\* Mutant of ResetToken: the parameter not trimmed.
ResetToken_Untrimmed(p) == Nullish(p, <<>>)

\* line 22: `(searchParams.get("token") ?? "").trim()`
ResetToken(p) == Trim(Nullish(p, <<>>))

\* lines 81-107; valid: whether validate(form) found no error
ResetSubmit(valid) ==
    /\ page = "reset"
    /\ ~ui.submitting
    /\ IF ResetToken(params.token) = <<>>
       THEN /\ ui' = [ui EXCEPT !.error = MissingToken, !.seen = NotSeen, !.ran = TRUE]
            /\ UNCHANGED coreVars
       ELSE IF ~valid
       THEN /\ ui' = [ui EXCEPT !.error = NoMsg, !.seen = NotSeen, !.ran = TRUE]
            /\ UNCHANGED coreVars
       ELSE /\ ui' = [Submitting(ui) EXCEPT !.ok = FALSE]
            /\ Begin(1, PostJson(FALSE), "none")
    /\ UNCHANGED <<page, params, pf>>

\* lines 109-123
AfterReset(u, k) ==
    IF k.kind = "response" /\ Ok(k.status)
    THEN [u EXCEPT !.seen = k, !.submitting = FALSE, !.ok = TRUE]
    ELSE IF k.kind = "response"
    THEN [u EXCEPT !.seen = k, !.submitting = FALSE,
                   !.error = OrLit(Get(JsonOr(k.body, NullData), "error"),
                       "Unable to reset password. The link might be invalid or expired.")]
    ELSE [u EXCEPT !.seen = k, !.submitting = FALSE, !.error = WentWrong]

ResetDone(b) ==
    /\ page = "reset"
    /\ Done(1)
    /\ ui' = AfterReset(ui, Awaited(1, b))
    /\ Release(1)
    /\ UNCHANGED <<page, params, pf>>

----------------------------------------------------------------------------
(* app/auth/forgot-password *)

TryAgain == Lit("We couldn't process your request. Please try again.")

\* lines 25-39
ForgotSubmit ==
    /\ page = "forgot"
    /\ ~ui.submitting
    /\ Begin(1, PostJson(FALSE), "none")
    /\ ui' = [Submitting(ui) EXCEPT !.ok = FALSE]
    /\ UNCHANGED <<page, params, pf>>

\* lines 41-60
AfterForgot(u, k) ==
    IF k.kind = "response" /\ Ok(k.status)
    THEN [u EXCEPT !.seen = k, !.submitting = FALSE, !.ok = TRUE]
    ELSE IF k.kind = "response" /\ k.status \in {401, 403}
    THEN [u EXCEPT !.seen = k, !.submitting = FALSE, !.error = Blocked]
    ELSE IF k.kind = "response"
    THEN [u EXCEPT !.seen = k, !.submitting = FALSE,
                   !.error = OrLit(Get(JsonOr(k.body, NullData), "error"), TryAgain.id)]
    ELSE [u EXCEPT !.seen = k, !.submitting = FALSE, !.error = WentWrong]

ForgotDone(b) ==
    /\ page = "forgot"
    /\ Done(1)
    /\ ui' = AfterForgot(ui, Awaited(1, b))
    /\ Release(1)
    /\ UNCHANGED <<page, params, pf>>

----------------------------------------------------------------------------
(* app/auth/resend-verification *)

Neutral ==
    Lit("If the account exists and is unverified, a new verification link has been sent.")
IsVerified == Lit("Your account is already verified. You can log in.")
TooSoon ==
    Lit("You're trying too soon. Please wait a few minutes before resending.")
CheckEmail ==
    Lit("We couldn't process your request. Please check the email and try again.")

\* line 69: `data?.message || data?.error || ""`
ResendMsg(d) ==
    IF Get(d, "message") # <<>> THEN Get(d, "message") ELSE Get(d, "error")

\* Mutant of ResendError: no branch for 429.
ResendError_NoRateLimit(s, d) ==
    IF s \in {400, 404} THEN OrLit(ResendMsg(d), CheckEmail.id)
    ELSE OrLit(ResendMsg(d), TryAgain.id)

\* lines 78-94: the error shown for status s and parsed body d
ResendError(s, d) ==
    IF s = 429 THEN OrLit(Get(d, "message"), TooSoon.id)
    ELSE IF s \in {400, 404} THEN OrLit(ResendMsg(d), CheckEmail.id)
    ELSE OrLit(ResendMsg(d), TryAgain.id)

\* lines 35-55: the handler makes a fresh AbortController for the call
ResendSubmit ==
    /\ page = "resend"
    /\ ~ui.submitting
    /\ Begin(1, PostJson(TRUE), "armed")
    /\ ui' = [Submitting(ui) EXCEPT !.ok = FALSE]
    /\ UNCHANGED <<page, params, pf>>

\* lines 57-100
AfterResend(u, k) ==
    IF k.kind = "error"
    THEN IF k.name = "AbortError"
         THEN [u EXCEPT !.seen = k, !.submitting = FALSE]
         ELSE [u EXCEPT !.seen = k, !.submitting = FALSE, !.error = WentWrong]
    ELSE LET d == JsonOr(k.body, EmptyObject)
         IN  IF Ok(k.status)
             THEN [u EXCEPT !.seen = k, !.submitting = FALSE,
                            !.okText = Neutral, !.ok = TRUE]
             ELSE IF AlreadyVerified(ResendMsg(d))
             THEN [u EXCEPT !.seen = k, !.submitting = FALSE,
                            !.okText = IsVerified, !.ok = TRUE, !.error = NoMsg]
             ELSE [u EXCEPT !.seen = k, !.submitting = FALSE,
                            !.error = ResendError(k.status, d)]

ResendDone(b) ==
    /\ page = "resend"
    /\ Done(1)
    /\ ui' = AfterResend(ui, Awaited(1, b))
    /\ Release(1)
    /\ UNCHANGED <<page, params, pf>>

----------------------------------------------------------------------------
(* app/auth/register: its own getCsrfToken / ensureCsrfToken, and fetch() *)

ServicesRequest == PlainRequest("/api/services", Null, "no-store", NoHeaders)

\* lines 290-303: the POST, with the header the page builds from token t
RegisterRequest(t) ==
    PlainRequest("/api/auth/register", Str(M_POST), "undefined",
                 PlainHeaders([k \in {"Content-Type", HDR} |->
                                  IF k = HDR THEN t ELSE V_json]))

VerificationSent == <<"/login?status=verification_sent">>

\* lines 275-303 and 170-177; valid: whether validate(form) found no error
RegisterSubmit(valid) ==
    /\ page = "register"
    /\ ~ui.submitting
    /\ ~Navigated(ui)
    /\ IF ~valid
       THEN /\ ui' = [ui EXCEPT !.error = NoMsg, !.seen = NotSeen, !.ran = TRUE]
            /\ pf' = pf
       ELSE /\ ui' = Submitting(ui)
            /\ LET t == getCsrfCookie(jar)
               IN  IF Truthy(t)
                   THEN pf' = [get |-> NoFetch, post |-> Sent(RegisterRequest(t.str))]
                   ELSE pf' = [get |-> Sent(ServicesRequest), post |-> NoFetch]
    /\ UNCHANGED <<page, params>>
    /\ UNCHANGED coreVars

\* lines 178-181 and 288-303: the GET settled one way or the other, the
\* cookie is read again and the POST goes out
RegisterPrimed(ok, setc, v) ==
    /\ page = "register"
    /\ pf.get.state = "sent"
    /\ jar' = IF ok /\ setc THEN SetCookie(jar, v) ELSE jar
    /\ pf' = [get |-> IF ok THEN Answered(pf.get, 200) ELSE Failed(pf.get),
              post |-> Sent(RegisterRequest(Nullish(getCsrfCookie(jar'), <<>>)))]
    /\ UNCHANGED <<page, params, ui>>
    /\ UNCHANGED <<pc, args, jar0, csrf, init, token, sig, res, result, log>>

\* lines 305-322
AfterRegister(u, k) ==
    IF k.kind = "response" /\ Ok(k.status)
    THEN [u EXCEPT !.seen = k, !.submitting = FALSE,
                   !.effects = Append(@, Push(VerificationSent))]
    ELSE IF k.kind = "response" /\ k.status \in {401, 403}
    THEN [u EXCEPT !.seen = k, !.submitting = FALSE, !.error = Blocked]
    ELSE IF k.kind = "response"
    THEN [u EXCEPT !.seen = k, !.submitting = FALSE,
                   !.error = OrLit(Get(JsonOr(k.body, NullData), "error"),
                                   "Registration failed. Please try again.")]
    ELSE [u EXCEPT !.seen = k, !.submitting = FALSE, !.error = WentWrong]

RegisterResponds(s, b) ==
    /\ page = "register"
    /\ pf.post.state = "sent"
    /\ pf' = [pf EXCEPT !.post = Answered(@, s)]
    /\ ui' = AfterRegister(ui, Seen(s, b))
    /\ UNCHANGED <<page, params>>
    /\ UNCHANGED coreVars

RegisterFails ==
    /\ page = "register"
    /\ pf.post.state = "sent"
    /\ pf' = [pf EXCEPT !.post = Failed(@)]
    /\ ui' = AfterRegister(ui, SeenError("TypeError"))
    /\ UNCHANGED <<page, params>>
    /\ UNCHANGED coreVars

----------------------------------------------------------------------------
(* app/auth/callback: the effect calls fetchWithCsrf on the identity endpoint
   when the page mounts, and its clean-up aborts the call's signal *)

Replace(to) == Effect("replace", to)
DashboardUrl == <<"/dashboard">>
LoginOAuthError == <<"/login?error=oauth">>
LoginUrl == <<"/login">>

\* lines 17-22
CallbackInit == [method |-> Null, credentials |-> "include", cache |-> "no-store",
                 headers |-> Accept, body |-> "undefined", signal |-> TRUE]

\* line 24: `search?.get("next") || "/dashboard"`
nextUrl(next) == IF Truthy(next) THEN next.str ELSE DashboardUrl

\* lines 12-22
CallbackMounted ==
    /\ page = "callback"
    /\ ui.mounted
    /\ ~ui.ran
    /\ Begin(1, CallbackInit, "armed")
    /\ ui' = [ui EXCEPT !.ran = TRUE]
    /\ UNCHANGED <<page, params, pf>>

\* lines 24-28: only `me.ok` is looked at; the body is not read
AfterCallback(u, k, next) ==
    [u EXCEPT !.seen = k,
              !.late = ~u.mounted,
              !.effects = Append(@, Replace(IF k.kind = "response" /\ Ok(k.status)
                                            THEN nextUrl(next)
                                            ELSE LoginOAuthError))]

CallbackDone(b) ==
    /\ page = "callback"
    /\ Done(1)
    /\ ui' = AfterCallback(ui, Awaited(1, b), params.next)
    /\ Release(1)
    /\ UNCHANGED <<page, params, pf>>

\* line 31: `return () => ac.abort()`
CallbackUnmount ==
    /\ page = "callback"
    /\ ui.mounted
    /\ ui' = [ui EXCEPT !.mounted = FALSE]
    /\ IF sig[1] = "armed" /\ pc[1] \in {"prime1", "yield", "send1", "prime2", "send2"}
       THEN Abort(1)
       ELSE UNCHANGED coreVars
    /\ UNCHANGED <<page, params, pf>>

\* The login page has no clean-up: unmounting it leaves its request alone.
LoginUnmount ==
    /\ page = "login"
    /\ ui.mounted
    /\ ui' = [ui EXCEPT !.mounted = FALSE]
    /\ UNCHANGED <<page, params, pf>>
    /\ UNCHANGED coreVars

----------------------------------------------------------------------------
(* app/(admin)/dashboard: the identity check made when the page mounts, and
   what the page renders *)

\* The identity endpoint's body as the dashboard reads it: `role` and `roles`.
Identity(k, a, r, rs) ==
    [kind |-> k, authenticated |-> a, error |-> <<>>, message |-> <<>>,
     role |-> r, roles |-> rs]

R_ADMIN == <<"A", "D", "M", "I", "N">>
R_admin == <<"a", "d", "m", "i", "n">>
R_ROLE_ADMIN == <<"R", "O", "L", "E", "_", "A", "D", "M", "I", "N">>
R_USER == <<"U", "S", "E", "R">>

DashBodies ==
    { Identity("object", "true", R_ADMIN, <<>>),
      Identity("object", "true", <<>>, <<R_USER, R_ROLE_ADMIN>>),
      Identity("object", "true", R_admin, <<>>),
      Identity("object", "true", R_USER, <<R_USER>>),
      Identity("object", "false", <<>>, <<>>),
      Identity("null", "absent", <<>>, <<>>),
      Identity("garbage", "absent", <<>>, <<>>) }

\* toUpperCase on the letters of the role names
UpperRole(ch) ==
    CASE ch = "a" -> "A"
      [] ch = "d" -> "D"
      [] ch = "m" -> "M"
      [] ch = "i" -> "I"
      [] ch = "n" -> "N"
      [] OTHER -> ch

\* `.replace(/^ROLE_/, "")`
StripRolePrefix(r) ==
    IF Len(r) >= 5 /\ SubSeq(r, 1, 5) = <<"R", "O", "L", "E", "_">>
    THEN SubSeq(r, 6, Len(r))
    ELSE r

\* lines 65-71, for a body that parsed to an object
isAdmin(b) ==
    \E r \in ({b.role} \cup {b.roles[i] : i \in 1..Len(b.roles)}) \ {<<>>} :
        StripRolePrefix([i \in 1..Len(r) |-> UpperRole(r[i])]) = R_ADMIN

DashPrimeRequest ==
    Request("/api/services", [method |-> Null, credentials |-> "include",
                              cache |-> "no-store", headers |-> NoHeaders,
                              body |-> "undefined", signal |-> TRUE])
DashMeRequest ==
    Request("/api/auth/me", [method |-> Null, credentials |-> "include",
                             cache |-> "no-store", headers |-> Accept,
                             body |-> "undefined", signal |-> TRUE])

\* lines 35-45
DashMounted ==
    /\ page = "dashboard"
    /\ ui.mounted
    /\ ~ui.ran
    /\ pf' = [pf EXCEPT !.get = Sent(DashPrimeRequest)]
    /\ ui' = [ui EXCEPT !.ran = TRUE]
    /\ UNCHANGED <<page, params>>
    /\ UNCHANGED coreVars

\* lines 79-85 after a redirect or an error: the finally block ends the
\* loading state on every path on which the signal is not aborted
DashRedirected(u, k, to) ==
    [u EXCEPT !.seen = k, !.effects = Append(@, Replace(to)), !.loading = FALSE]

\* lines 41-53: the priming GET settles; on a response the identity check is
\* sent, on a transport error the catch redirects
DashPrimed(ok, setc, v) ==
    /\ page = "dashboard"
    /\ pf.get.state = "sent"
    /\ pf.get.req = DashPrimeRequest
    /\ jar' = IF ok /\ setc THEN SetCookie(jar, v) ELSE jar
    /\ IF ok
       THEN /\ pf' = [pf EXCEPT !.get = Sent(DashMeRequest)]
            /\ ui' = ui
       ELSE /\ pf' = [pf EXCEPT !.get = Failed(@)]
            /\ ui' = DashRedirected(ui, SeenError("TypeError"), LoginUrl)
    /\ UNCHANGED <<page, params>>
    /\ UNCHANGED <<pc, args, jar0, csrf, init, token, sig, res, result, log>>

\* lines 55-85
AfterDashMe(u, k) ==
    IF ~Ok(k.status) THEN DashRedirected(u, k, LoginUrl)
    ELSE IF k.body.kind # "object" THEN DashRedirected(u, k, LoginUrl)
    ELSE IF ~isAdmin(k.body) THEN DashRedirected(u, k, Home)
    ELSE [u EXCEPT !.seen = k, !.user = "user", !.loading = FALSE]

DashMeResponds(s, b) ==
    /\ page = "dashboard"
    /\ pf.get.state = "sent"
    /\ pf.get.req = DashMeRequest
    /\ pf' = [pf EXCEPT !.get = Answered(@, s)]
    /\ ui' = AfterDashMe(ui, Seen(s, b))
    /\ UNCHANGED <<page, params>>
    /\ UNCHANGED coreVars

DashMeFails ==
    /\ page = "dashboard"
    /\ pf.get.state = "sent"
    /\ pf.get.req = DashMeRequest
    /\ pf' = [pf EXCEPT !.get = Failed(@)]
    /\ ui' = DashRedirected(ui, SeenError("TypeError"), LoginUrl)
    /\ UNCHANGED <<page, params>>
    /\ UNCHANGED coreVars

\* line 88: the clean-up aborts the signal; a request in flight rejects with
\* AbortError, and with the signal aborted the catch and the finally block
\* do nothing (lines 80, 84)
DashUnmount ==
    /\ page = "dashboard"
    /\ ui.mounted
    /\ ui' = [ui EXCEPT !.mounted = FALSE]
    /\ pf' = IF pf.get.state = "sent" THEN [pf EXCEPT !.get = Failed(@)] ELSE pf
    /\ UNCHANGED <<page, params>>
    /\ UNCHANGED coreVars

\* lines 96-142: the admin panels are on screen
PanelsRendered == page = "dashboard" /\ ui.mounted /\ ~ui.loading

----------------------------------------------------------------------------
(* A page, mounted with its query parameters *)

FlowJars == {<<Session>>, <<Session, [name |-> XSRF, value |-> T_a]>>}

NextValues == {Null, Str(<<>>), Str(N_admin)}
TokenValues == {Null, Str(<<>>), Str(<<" ">>), Str(<<"t">>), Str(<<" ", "t", " ">>)}

ParamsOf(p) ==
    IF p \in {"login", "loginLegacy", "callback"} THEN {[NoParams EXCEPT !.next = n] : n \in NextValues}
    ELSE IF p = "reset" THEN {[NoParams EXCEPT !.token = t] : t \in TokenValues}
    ELSE {NoParams}

\* useState's initial values
InitialUi(p) ==
    IF p \in {"navbar", "dashboard"} THEN [NoUi EXCEPT !.loading = TRUE]
    ELSE IF p = "resend" THEN [NoUi EXCEPT !.okText = Neutral]
    ELSE NoUi

FlowInit ==
    /\ jar \in FlowJars
    /\ CoreIdle
    /\ page \in Pages
    /\ params \in ParamsOf(page)
    /\ ui = InitialUi(page)
    /\ pf = NoFetches

FlowNext ==
    \/ \E ok \in BOOLEAN, setc \in BOOLEAN :
          PrimeSettles(1, ok, setc, T_a) /\ UNCHANGED flowVars
    \/ Yield(1) /\ UNCHANGED flowVars
    \/ \E s \in FlowStatuses : Respond1(1, s, FALSE, T_a) /\ UNCHANGED flowVars
    \/ \E s \in FlowStatuses : Respond2(1, s, FALSE, T_a) /\ UNCHANGED flowVars
    \/ TransportFails(1) /\ UNCHANGED flowVars
    \/ FetchMeCalled
    \/ \E s \in FlowStatuses, b \in MeBodies : FetchMeResponds(s, b)
    \/ FetchMeFails
    \/ RefreshAuth
    \/ \E s \in FlowStatuses, b \in MeBodies : RefreshAuthResponds(s, b)
    \/ RefreshAuthFails
    \/ HandleLogout
    \/ LogoutSettles
    \/ LoginSubmit
    \/ \E b \in FlowBodies : LoginDone(b)
    \/ LegacyLoginSubmit
    \/ \E s \in FlowStatuses, b \in FlowBodies : LegacyLoginResponds(s, b)
    \/ LegacyLoginFails
    \/ \E valid \in BOOLEAN : ResetSubmit(valid)
    \/ \E b \in FlowBodies : ResetDone(b)
    \/ ForgotSubmit
    \/ \E b \in FlowBodies : ForgotDone(b)
    \/ ResendSubmit
    \/ \E b \in FlowBodies : ResendDone(b)
    \/ \E valid \in BOOLEAN : RegisterSubmit(valid)
    \/ \E ok \in BOOLEAN, setc \in BOOLEAN : RegisterPrimed(ok, setc, T_a)
    \/ \E s \in FlowStatuses, b \in FlowBodies : RegisterResponds(s, b)
    \/ RegisterFails
    \/ LoginUnmount
    \/ CallbackMounted
    \/ \E b \in MeBodies : CallbackDone(b)
    \/ CallbackUnmount
    \/ DashMounted
    \/ \E ok \in BOOLEAN, setc \in BOOLEAN : DashPrimed(ok, setc, T_a)
    \/ \E s \in FlowStatuses, b \in DashBodies : DashMeResponds(s, b)
    \/ DashMeFails
    \/ DashUnmount

\* Every request the browser sends settles: the logout POST gets a response
\* or fails.
FlowSpec == FlowInit /\ [][FlowNext]_vars /\ WF_vars(LogoutSettles)

----------------------------------------------------------------------------
(* Reading a page's state *)

Responded(s) == ui.seen.kind = "response" /\ ui.seen.status = s
RespondedOk == ui.seen.kind = "response" /\ Ok(ui.seen.status)
Assigned(to) == \E i \in 1..Len(ui.effects) : ui.effects[i] = Assign(to)

\* the token parameter is missing, empty or only white space
BlankToken ==
    params.token.isNull \/ \A i \in 1..Len(params.token.str) : IsSpace(params.token.str[i])

\* the body's `message` and `error` as the handler reads them (absent: <<>>)
SaidMessage == IF ui.seen.body.kind = "object" THEN ui.seen.body.message ELSE <<>>
SaidError == IF ui.seen.body.kind = "object" THEN ui.seen.body.error ELSE <<>>
Said == IF SaidMessage # <<>> THEN SaidMessage ELSE SaidError

----------------------------------------------------------------------------
(* C12: when the identity endpoint answers 401, fetchMe resolves with a value
   whose authenticated field is false; it does not throw, whatever the body
   of the 401 is. *)
C12_UnauthorizedIsAnonymous ==
    (page = "me" /\ Responded(401)) =>
        /\ ui.outcome.kind = "returned"
        /\ ui.outcome.value.kind = "object"
        /\ ui.outcome.value.authenticated = "false"

\* a 401 whose body is not JSON was answered with { authenticated: false }
C12_Witness ==
    /\ page = "me"
    /\ Responded(401)
    /\ ui.seen.body = Garbage
    /\ ui.outcome = Returned(Anonymous)

----------------------------------------------------------------------------
(* C13: a failure of fetchMe other than an explicit 401 (a network error, or
   an unexpected status such as 500) is reported as an error, distinct from
   the unauthenticated value a 401 gives. *)
C13_FailureIsDistinct ==
    (/\ page = "me"
     /\ \/ ui.seen.kind = "error"
        \/ ui.seen.kind = "response" /\ ~Ok(ui.seen.status) /\ ui.seen.status # 401)
    => /\ ui.outcome.kind = "thrown"
       /\ ui.outcome # Returned(Anonymous)

----------------------------------------------------------------------------
(* C14: on a 2xx response whose body is not of the expected shape (not JSON,
   null, or an object without `authenticated`), fetchMe yields the
   unauthenticated value and does not throw. *)
C14_BadBodyIsAnonymous ==
    (/\ page = "me"
     /\ RespondedOk
     /\ \/ ui.seen.body.kind # "object"
        \/ ui.seen.body.authenticated = "absent")
    => ui.outcome = Returned(Anonymous)

----------------------------------------------------------------------------
(* C15: on either login page, after a 2xx response (204 included) the page
   has dispatched "cks:auth-changed" and then assigned the location to the
   `next` parameter, or to "/" when the parameter is absent; after any other
   response, or none, it has done neither. *)
C15_LoginNavigates ==
    (page \in {"login", "loginLegacy"}) =>
        IF RespondedOk
        THEN ui.effects = <<AuthChanged,
                            Assign(IF params.next.isNull THEN Home ELSE params.next.str)>>
        ELSE ui.effects = <<>>

\* a 204 on the page that has ?next=/admin
C15_Witness ==
    /\ page = "login"
    /\ params.next = Str(N_admin)
    /\ Responded(204)
    /\ ui.effects = <<AuthChanged, Assign(N_admin)>>

----------------------------------------------------------------------------
(* C16: on the reset-password page reached with a missing or blank token,
   no request is ever made (no priming GET, no POST), and once the form has
   been submitted the missing-token error is shown. *)
C16_BlankTokenBlocks ==
    (page = "reset" /\ BlankToken) =>
        /\ pc[1] = "idle"
        /\ log[1] = <<>>
        /\ pf = NoFetches
        /\ ui.ran => (ui.error = MissingToken /\ ~ui.submitting)

\* the form was submitted on a page whose token is a single space
C16_Witness ==
    /\ page = "reset"
    /\ params.token = Str(<<" ">>)
    /\ ui.ran
    /\ ui.error = MissingToken

----------------------------------------------------------------------------
(* C17 as stated: every 429, whatever its body, ends with the "wait before
   retrying" text shown and no success banner; the neutral success text is
   shown only after a 2xx. *)
C17_Every429Waits ==
    (page = "resend") =>
        /\ Responded(429) => (ui.error = TooSoon /\ ~ui.ok)
        /\ (ui.ok /\ ui.okText = Neutral) => RespondedOk

(* C17, amended: a 429 whose message does not match "already verified" ends
   with an error shown (the body's `message` when it has one, otherwise the
   "wait before retrying" text) and no success banner; a 429 whose message
   matches ends with the banner and the "already verified" text; the banner
   with the neutral text is shown only after a 2xx. *)
C17_RateLimited ==
    (page = "resend") =>
        /\ (Responded(429) /\ ~AlreadyVerified(Said)) =>
              /\ ~ui.ok
              /\ ui.error = IF SaidMessage # <<>> THEN FromServer(SaidMessage) ELSE TooSoon
        /\ (Responded(429) /\ AlreadyVerified(Said)) =>
              (ui.ok /\ ui.okText = IsVerified /\ ui.error = NoMsg)
        /\ (ui.ok /\ ui.okText = Neutral) => RespondedOk

\* a 429 without a message: the page's own "wait" text
C17_Witness ==
    /\ page = "resend"
    /\ Responded(429)
    /\ ui.seen.body = EmptyObject
    /\ ui.error = TooSoon
    /\ ~ui.ok

----------------------------------------------------------------------------
(* C18: on the forgot-password page the text shown after a submission is a
   function of the outcome class alone (2xx, 401/403, other status, transport
   error), never of the response body. *)
C18_MessageByClassOnly ==
    (page = "forgot" /\ ui.seen.kind # "none") =>
        ui.error = IF RespondedOk THEN NoMsg
                   ELSE IF Responded(401) \/ Responded(403) THEN Blocked
                   ELSE IF ui.seen.kind = "response" THEN TryAgain
                   ELSE WentWrong

----------------------------------------------------------------------------
(* C19: once handleLogout has started and its request is under way, the user
   state is eventually null and the location has been assigned "/", whether
   the request gets a response of any status or fails. *)
C19_LogoutAlwaysCleansUp ==
    (page = "navbar" /\ ui.loggingOut /\ pf.post.state = "sent")
        ~> (ui.user = "null" /\ Assigned(Home))

\* the logout request failed at transport level, and the clean-up was done
C19_Witness ==
    /\ page = "navbar"
    /\ ui.loggingOut
    /\ ui.seen.kind = "error"
    /\ ui.user = "null"
    /\ Assigned(Home)

----------------------------------------------------------------------------
(* C20: no page sends a POST with fetch() itself: every POST of the auth
   flows goes out through fetchWithCsrf. *)
C20_AllThroughWrapper ==
    \A k \in {"get", "post"} :
        pf[k].state # "idle" => MethodName(pf[k].req.method) # M_POST

----------------------------------------------------------------------------
(* C21: the callback page replaces the location with the `next` parameter
   (default "/dashboard") only when the session check reported an
   authenticated session; when the session is unauthenticated or the check
   failed, it replaces it with "/login?error=oauth". *)
C21_CallbackNavigates ==
    (page = "callback" /\ ui.seen.kind # "none") =>
        ui.effects = << Replace(IF /\ RespondedOk
                                   /\ ui.seen.body.kind = "object"
                                   /\ ui.seen.body.authenticated = "true"
                                THEN IF Truthy(params.next) THEN params.next.str
                                     ELSE DashboardUrl
                                ELSE LoginOAuthError) >>

----------------------------------------------------------------------------
(* C22: once a page has unmounted while its request was in flight, the
   request is cancelled, and nothing (no state update, no navigation) is
   applied afterwards on account of that request. *)
C22_NothingAfterUnmount ==
    (page \in {"login", "callback", "dashboard"} /\ ~ui.mounted) =>
        /\ ~ui.late
        /\ pc[1] \notin {"prime1", "yield", "send1", "prime2", "send2"}
        /\ pf.get.state # "sent"

----------------------------------------------------------------------------
(* C26: the dashboard's admin panels are on screen only when the identity
   check ended with an ok response of an identity with an ADMIN role; after
   any other outcome the page has redirected and shows no panels. *)
C26_PanelsOnlyForAdmin ==
    PanelsRendered =>
        /\ RespondedOk
        /\ ui.seen.body.kind = "object"
        /\ ui.user = "user"
        /\ ui.effects = <<>>

----------------------------------------------------------------------------
(* C23 as stated: the cookie is never re-read in the step in which a priming
   call resolves; every priming is followed by a yield before the re-read. *)
C23_NeverRereadOnResolve ==
    [][\A c \in Calls :
          (pc[c] \in {"prime1", "prime2"} /\ pc'[c] # pc[c]) =>
              (pc'[c] = "yield" /\ token'[c] = token[c])]_vars

(* C23, amended: in the token acquisition before the first attempt, the step
   in which the priming call resolves neither re-reads the cookie nor sends;
   the call goes to its yield point, and the first attempt after a priming
   is sent only from there.  The retry path has no such yield. *)
C23_YieldBeforeReread ==
    [][\A c \in Calls :
          /\ (pc[c] = "prime1" /\ pc'[c] # "prime1") =>
                (pc'[c] = "yield" /\ token'[c] = token[c] /\ init'[c] = init[c])
          /\ (pc[c] # "send1" /\ pc'[c] = "send1") => pc[c] \in {"idle", "yield"}]_vars

\* the first priming has resolved and set the cookie; the call is at its
\* yield point and has not read the cookie again yet
C23_Witness ==
    /\ pc[1] = "yield"
    /\ log[1][Len(log[1])].type = "primeDone"
    /\ token[1] = Null
    /\ getCsrfCookie(jar) = Str(<<"b", "=", "c">>)

----------------------------------------------------------------------------
(* C24: a mutating call that starts while an XSRF-TOKEN cookie is present,
   even one whose value is the empty string, issues no priming request before
   its first attempt, and the first attempt carries the X-XSRF-TOKEN header
   with the cookie's value as read at that moment. *)
C24_NoPrimingWhenCookiePresent ==
    \A c \in Calls :
        (Started(c) /\ Mutating(c) /\ ~CookieAbsent(jar0[c])) =>
            /\ IsAttempt(log[c][1])
            /\ HasToken(log[c][1].req)
            /\ TokenOf(log[c][1].req) = CookieOrEmpty(jar0[c])

----------------------------------------------------------------------------
(* C25: fetchMe keeps no state between calls: every call issues one request
   to the identity endpoint, with the cache disabled, and what it gives its
   caller is determined by that request's response alone, whatever the
   previous call gave. *)
C25_FreshEveryCall ==
    (page = "me") =>
        /\ ui.requests = ui.calls
        /\ pf.get.state # "idle" =>
              (pf.get.req.url = "/api/auth/me" /\ pf.get.req.cache = "no-store")
        /\ pf.get.state = "sent" => ui.outcome.kind = "none"
        /\ pf.get.state = "done" =>
              ui.outcome = IF ~Ok(ui.seen.status) THEN Returned(Anonymous)
                           ELSE IF ui.seen.body.kind = "garbage" THEN Thrown("SyntaxError")
                           ELSE Returned(ui.seen.body)

\* the first call found a session; the session ended on the server, and the
\* second call reports it
C25_Witness ==
    /\ page = "me"
    /\ ui.calls = 2
    /\ ui.prev = Returned(Body("object", "true", <<>>, <<>>))
    /\ Responded(401)
    /\ ui.outcome = Returned(Anonymous)

----------------------------------------------------------------------------
\* The network requests a call has issued, in order: "prime" or "send".
RequestKinds(l) ==
    LET r == SelectSeq(l, LAMBDA e : e.type \in {"prime", "send"})
    IN  [i \in 1..Len(r) |-> r[i].type]

\* r is the beginning of full.
StartsSeq(r, full) == Len(r) <= Len(full) /\ r = SubSeq(full, 1, Len(r))

\* In every state: the requests issued so far begin prime?, send, (prime,
\* send)?, and a call that resolved issued one of the four complete orders.
C27_RequestsInOrder ==
    \A c \in Calls :
        LET r == RequestKinds(log[c])
        IN  /\ \/ StartsSeq(r, <<"prime", "send", "prime", "send">>)
               \/ StartsSeq(r, <<"send", "prime", "send">>)
            /\ pc[c] = "resolved" =>
                  r \in { <<"send">>, <<"prime", "send">>, <<"send", "prime", "send">>,
                          <<"prime", "send", "prime", "send">> }

(* C27: with every underlying request settling, every call of fetchWithCsrf
   ends (resolved or rejected), and it issues at most two priming requests
   and at most two requests to the target, in the order prime?, send,
   (prime, send)?. *)
C27_TerminatesWithinFour ==
    /\ []C27_RequestsInOrder
    /\ \A c \in Solo : Started(c) ~> Done(c)

\* The longest call: primed, refused with 403, primed again, and the retry
\* refused with 403 as well; that second 403 is what the caller gets.
C27_Witness ==
    /\ pc[1] = "resolved"
    /\ RequestKinds(log[1]) = <<"prime", "send", "prime", "send">>
    /\ result[1] = Response(403, 2)

----------------------------------------------------------------------------
\* Request r with the value of its X-XSRF-TOKEN header blanked.
BlankTokenValue(r) ==
    IF HasToken(r) THEN [r EXCEPT !.headers.map[HDR] = <<>>] ELSE r

(* C28: the retry is handed to fetch with the url, method, body, signal,
   credentials, cache and headers of the first attempt; the two requests are
   equal once the value of X-XSRF-TOKEN is set aside. *)
C28_RetryDiffersInTokenOnly ==
    \A c \in Calls :
        LET at == AttemptsAt(log[c])
        IN  \A i \in at, k \in at :
                /\ BlankTokenValue(log[c][i].req) = BlankTokenValue(log[c][k].req)
                /\ HasToken(log[c][i].req) <=> HasToken(log[c][k].req)

\* A POST with a JSON body, a Content-Type header and a signal, retried with
\* another token than the one the first attempt carried.
C28_Witness ==
    /\ pc[1] = "send2"
    /\ LET at == AttemptsAt(log[1])
           r1 == log[1][CHOOSE i \in at : \A k \in at : i <= k].req
           r2 == log[1][CHOOSE i \in at : \A k \in at : i >= k].req
       IN  /\ Cardinality(at) = 2
           /\ r1.body = "json" /\ r1.signal
           /\ "Content-Type" \in DOMAIN r1.headers.map
           /\ TokenOf(r1) # TokenOf(r2)

----------------------------------------------------------------------------
(* The admin list panels: UsersManager and ServicesManager.  Each run of the
   load effect is a load, numbered in the order the runs start; a run starts
   on mount and whenever a dependency changes (the user pages, filters or
   refreshes; the poll timer bumps refreshKey).  React runs the previous
   run's cleanup, which sets its `cancelled`, before the new run.  Here ui is
   the panel's state and pf the loads. *)

\* How many runs of the load effect a panel makes.
MaxLoads == 3
Loads == 1..MaxLoads

Panels == {"users", "services"}

\* The sortKey prop of ServicesManager: "" by default, or a property name.
SortKeys == {"", "name"}


\* Texts of a non-ok response, in words.
T_PropertyReferenceException == "PropertyReferenceException"
T_NoProperty == "No property"

ListAnswer(s, t) == [kind |-> "response", status |-> s, text |-> t]
ListFailure == [kind |-> "error", status |-> 0, text |-> <<>>]
NoAnswer == [kind |-> "none", status |-> 0, text |-> <<>>]

\* What the list endpoint may answer: the page, or a refusal with a text.
PanelAnswers ==
    { ListAnswer(200, <<>>),
      ListAnswer(404, <<"denied">>),
      ListAnswer(404, <<"x", T_PropertyReferenceException>>),
      ListAnswer(404, <<T_NoProperty, "y">>),
      ListAnswer(400, <<>>),
      ListAnswer(500, <<>>) }

\* A piece of panel state: its value, the load that set it (0: the initial
\* useState value), and whether that load was cancelled when it set it.
Cell(v, l, c) == [value |-> v, by |-> l, stale |-> c]

PanelUi == [mounted |-> TRUE, cur |-> 0,
            items |-> Cell(0, 0, FALSE), meta |-> Cell(0, 0, FALSE),
            loading |-> Cell(TRUE, 0, FALSE), err |-> Cell(NoMsg, 0, FALSE)]

\* A run of the effect: where it stands, its `cancelled`, the argument of the
\* fetchPage call in progress, the requests sent so far and the last of them,
\* and the response whose text is being read.
NoLoad == [stage |-> "idle", cancelled |-> FALSE, tryWithoutSort |-> FALSE,
           sent |-> 0, req |-> "none", last |-> NoAnswer]

\* ServicesManager lines 274-286, UsersManager lines 255-263
ListRequest(p, sorted) ==
    [url |-> IF p = "users" THEN "/api/users" ELSE "/api/services",
     sort |-> sorted, credentials |-> "include", cache |-> "no-store"]

\* A state setter called by load l, whose `cancelled` is c at that moment.
\* React drops an update of an unmounted component.
SetState(u, f, v, l, c) == IF u.mounted THEN [u EXCEPT ![f] = Cell(v, l, c)] ELSE u

\* ServicesManager lines 271-272, UsersManager lines 253-254:
\* `setLoading(true); setErr(null);`, not guarded by `cancelled`
fetchPageStart(u, l, c) ==
    SetState(SetState(u, "loading", TRUE, l, c), "err", NoMsg, l, c)

\* ServicesManager lines 302-311 and 315, UsersManager lines 279-288 and 292
LoadSucceeded(u, l, c) ==
    IF c THEN u
    ELSE SetState(SetState(SetState(u, "items", l, l, c), "meta", l, l, c),
                  "loading", FALSE, l, c)

\* ServicesManager lines 312-315, UsersManager lines 289-292
LoadErrored(u, l, c, msg) ==
    IF c THEN u
    ELSE SetState(SetState(u, "err", msg, l, c), "loading", FALSE, l, c)

\* `text.includes(w)`
includes(text, w) == \E i \in 1..Len(text) : text[i] = w

\* ServicesManager lines 290-294
looksLikeBadSort(text, s) ==
    \/ includes(text, T_PropertyReferenceException)
    \/ includes(text, T_NoProperty)
    \/ s = 500
    \/ s = 400

\* Mutant of FallsBack: tryWithoutSort not looked at.
FallsBack_Again(sortKey, tryWithoutSort, looks) == sortKey # "" /\ looks

\* ServicesManager line 296
FallsBack(sortKey, tryWithoutSort, looks) == sortKey # "" /\ ~tryWithoutSort /\ looks

\* ServicesManager line 299: `text || `Failed ${res.status}``;
\* UsersManager line 264: `Failed ${res.status}`
FailedStatus(s) == [src |-> "page", id |-> "Failed", text |-> <<ToString(s)>>]
ErrorText(p, t, s) == IF p = "services" /\ t # <<>> THEN FromServer(t) ELSE FailedStatus(s)

\* The effect runs: on mount, or again because a dependency changed.  The
\* previous run's cleanup sets its `cancelled`; the new run calls fetchPage().
LoadStarts ==
    /\ page \in Panels
    /\ ui.mounted
    /\ ui.cur < MaxLoads
    /\ LET l == ui.cur + 1
           cleaned == IF ui.cur > 0 THEN [pf EXCEPT ![ui.cur].cancelled = TRUE] ELSE pf
           sorted == page = "users" \/ params.sortKey # ""
       IN  /\ pf' = [cleaned EXCEPT ![l] =
                        [NoLoad EXCEPT !.stage = "fetch", !.sent = 1,
                                       !.req = ListRequest(page, sorted)]]
           /\ ui' = [fetchPageStart(ui, l, FALSE) EXCEPT !.cur = l]
    /\ UNCHANGED <<coreVars, page, params>>

\* The request of load l is answered with a.  UsersManager line 264 throws
\* at once; ServicesManager awaits res.text().
ListResponds(l, a) ==
    /\ page \in Panels
    /\ pf[l].stage = "fetch"
    /\ IF Ok(a.status)
       THEN /\ pf' = [pf EXCEPT ![l].stage = "json"]
            /\ ui' = ui
       ELSE IF page = "users"
       THEN /\ pf' = [pf EXCEPT ![l].stage = "done"]
            /\ ui' = LoadErrored(ui, l, pf[l].cancelled, ErrorText(page, a.text, a.status))
       ELSE /\ pf' = [pf EXCEPT ![l].stage = "text", ![l].last = a]
            /\ ui' = ui
    /\ UNCHANGED <<coreVars, page, params>>

\* The transport of load l's request fails: fetch rejects, the catch runs.
ListFails(l) ==
    /\ page \in Panels
    /\ pf[l].stage = "fetch"
    /\ pf' = [pf EXCEPT ![l].stage = "done"]
    /\ ui' = LoadErrored(ui, l, pf[l].cancelled, Lit("Failed to fetch"))
    /\ UNCHANGED <<coreVars, page, params>>

\* `await res.json()` settles: the page is applied, or the catch runs.
JsonRead(l, parses) ==
    /\ page \in Panels
    /\ pf[l].stage = "json"
    /\ pf' = [pf EXCEPT ![l].stage = "done"]
    /\ ui' = IF parses THEN LoadSucceeded(ui, l, pf[l].cancelled)
             ELSE LoadErrored(ui, l, pf[l].cancelled, Lit("SyntaxError"))
    /\ UNCHANGED <<coreVars, page, params>>

\* ServicesManager lines 288-299: `await res.text()` settles; either
\* fetchPage(true) is called, which sets loading and err and sends the request
\* without the sort parameter, or the error is thrown to the catch.
TextRead(l) ==
    /\ page = "services"
    /\ pf[l].stage = "text"
    /\ LET a == pf[l].last
       IN  IF FallsBack(params.sortKey, pf[l].tryWithoutSort,
                        looksLikeBadSort(a.text, a.status))
           THEN /\ pf' = [pf EXCEPT ![l].stage = "fetch",
                                    ![l].tryWithoutSort = TRUE,
                                    ![l].sent = @ + 1,
                                    ![l].req = ListRequest(page, FALSE),
                                    ![l].last = NoAnswer]
                /\ ui' = fetchPageStart(ui, l, pf[l].cancelled)
           ELSE /\ pf' = [pf EXCEPT ![l].stage = "done", ![l].last = NoAnswer]
                /\ ui' = LoadErrored(ui, l, pf[l].cancelled,
                                     ErrorText(page, a.text, a.status))
    /\ UNCHANGED <<coreVars, page, params>>

\* The panel unmounts: the cleanup of the last run sets its `cancelled`.
PanelUnmount ==
    /\ page \in Panels
    /\ ui.mounted
    /\ ui.cur > 0
    /\ pf' = [pf EXCEPT ![ui.cur].cancelled = TRUE]
    /\ ui' = [ui EXCEPT !.mounted = FALSE]
    /\ UNCHANGED <<coreVars, page, params>>

PanelInit ==
    /\ jar = <<Session>>
    /\ CoreIdle
    /\ page \in Panels
    /\ params \in {[sortKey |-> k] : k \in IF page = "services" THEN SortKeys ELSE {""}}
    /\ ui = PanelUi
    /\ pf = [l \in Loads |-> NoLoad]

PanelNext ==
    \/ LoadStarts
    \/ \E l \in Loads, a \in PanelAnswers : ListResponds(l, a)
    \/ \E l \in Loads : ListFails(l)
    \/ \E l \in Loads, parses \in BOOLEAN : JsonRead(l, parses)
    \/ \E l \in Loads : TextRead(l)
    \/ PanelUnmount

PanelSpec == PanelInit /\ [][PanelNext]_vars

(* C29: no piece of the panel's state (items, paging metadata, loading,
   error) is ever set by a load that was cancelled, that is, after a newer
   load started or the panel unmounted. *)
C29_NoStaleUpdate ==
    page \in Panels =>
        \A f \in {"items", "meta", "loading", "err"} : ~ui[f].stale

\* The newest load ended, and the panel does not show "loading" any more.
C29_SettledWhenNewestDone ==
    (page \in Panels /\ ui.mounted /\ ui.cur > 0 /\ pf[ui.cur].stage = "done")
        => ~ui.loading.value

\* In every step: a load sends a request after its first only once, without
\* the sort parameter, with a sort key set, on a non-ok answer to the sorted
\* request that looks like a bad-sort failure.
C30_FallbackOnlyOnBadSort ==
    \A l \in Loads :
        (page = "services" /\ pf[l].sent >= 1 /\ pf'[l].sent # pf[l].sent) =>
            /\ pf[l].sent = 1 /\ pf'[l].sent = 2
            /\ pf[l].req.sort /\ ~pf'[l].req.sort
            /\ params.sortKey # ""
            /\ pf[l].last.kind = "response" /\ ~Ok(pf[l].last.status)
            /\ looksLikeBadSort(pf[l].last.text, pf[l].last.status)

\* In every step: when the fallback of load l fails (no response, or a non-ok
\* response whose text has been read), the load ends without another
\* request, and unless it was cancelled the panel shows an error set by l and
\* no "loading".
C30_FallbackFailureReported ==
    \A l \in Loads :
        (/\ page = "services"
         /\ pf[l].sent = 2
         /\ pf'[l].stage # pf[l].stage
         /\ pf[l].stage = "text" \/ (pf[l].stage = "fetch" /\ pf'[l].stage = "done")) =>
            /\ pf'[l].stage = "done"
            /\ pf'[l].sent = 2
            /\ ~pf[l].cancelled =>
                  /\ ui'.err.by = l /\ ui'.err.value # NoMsg
                  /\ ~ui'.loading.value

(* C30: a load of ServicesManager sends at most two requests; the second is
   without the sort parameter, and is sent only when a sort key is set and
   the first, sorted request got a non-ok response that looked like a
   bad-sort failure; when the fallback fails the load reports an error and
   sends nothing more. *)
C30_AtMostOneFallback ==
    /\ [](page = "services" => \A l \in Loads : pf[l].sent <= 2)
    /\ [][C30_FallbackOnlyOnBadSort]_vars
    /\ [][C30_FallbackFailureReported]_vars

\* A sorted request refused with 500, the fallback refused with 500 too: the
\* load is over after two requests and the panel shows the error.
C30_Witness ==
    /\ page = "services"
    /\ pf[1].sent = 2
    /\ pf[1].stage = "done"
    /\ ui.err = Cell(FailedStatus(500), 1, FALSE)
    /\ ~ui.loading.value
====
